---- MODULE Spec2Model ----
(***************************************************************************)
(* Verification model of the Vorbis setup-header decoder.                  *)
(*                                                                         *)
(* The bit reader is modelled by the number of bits consumed (pos) and the *)
(* widths of the fields read so far (trace).  The payload is any finite    *)
(* byte string of at most Limit bytes: a read of n bits at offset pos      *)
(* succeeds with any n-bit value when the payload is long enough, and ends *)
(* with UnexpectedEof when the payload stops at a byte boundary inside or  *)
(* right before the field.                                                 *)
(***************************************************************************)
EXTENDS Integers, Sequences, FiniteSets, TLC

(* ------------------------------ bounds --------------------------------- *)
\* longest payload, in bytes, of the input class "lengths"
MaxBytes == 13
\* longest payload, in bytes, of the input class "table"
TableBytes == 19
\* longest payload, in bytes, of the input class "long"
LongBytes == 74
\* longest payload, in bytes, handed to SetupHeader::from_bytes
SetupBytes == 20
\* largest value of the 24-bit entries field
MaxEntries == 3
\* largest value of the 16-bit dimensions field
MaxDimensions == 2
\* most symbols inserted into one Huffman tree by a run of add_node calls
MaxSymbols == 6
\* longest codeword length handed to add_node in such a run
MaxCodeLength == 4

\* longest payload, in bytes, of the input class "floor"
FloorBytes == 28
\* longest payload, in bytes, of the input class "floor_long"
LongFloorBytes == 52
\* largest value of the 5-bit partitions field in the input class "floor"
MaxPartitions == 2
\* largest partition class number in the input class "floor"
MaxClass == 1
\* longest payload, in bytes, of the input class "mapping"
MappingBytes == 53
\* most channels of the stream a Mapping is decoded in
MaxChannels == 2
\* longest payload, in bytes, handed to TimeDomainTransform::decode
MaxTimeDomainLen == 3
\* largest entries and dimensions handed to lookup1_values, besides the
\* pairs of Lookup1Cases
MaxUtilEntries == 40
MaxUtilDimensions == 4
\* longest buffer and largest y handed to render_line, besides the calls of
\* RenderLineTests
MaxBuffer == 5
MaxY == 4
\* longest slice handed to low_neighbor and high_neighbor, besides the
\* slices of NeighborTests
MaxNeighborLen == 4
\* longest payload of Residue::decode, in bytes
ResidueBytes == 125
\* cascade elements of a residue whose fields take several values
MaxFreeCascade == 2

(* --------------------------- program constants ------------------------- *)
U8Max == 255
ExponentBias == 788
\* the width of a u32: size_of::<u32>() * 8
BITS == 32
F32MaxExp == 128

None == -1

SyncPattern == <<66, 67, 86>>

RECURSIVE Pow2(_)
Pow2(n) == IF n = 0 THEN 1 ELSE 2 * Pow2(n - 1)

\* A u32 is held as <<high half, low half>>, two 16-bit numbers.
u32(x) == <<x \div 65536, x % 65536>>

\* the number a u32 below 2^31 stands for
value_of(x) == x[1] * 65536 + x[2]

\* a < b for two u32
lt_u32(a, b) == a[1] < b[1] \/ (a[1] = b[1] /\ a[2] < b[2])

\* a <= b for two u32
le_u32(a, b) == a[1] < b[1] \/ (a[1] = b[1] /\ a[2] <= b[2])

\* the full product of two 16-bit numbers, as a u32
Mul16(x, y) ==
    LET mid == (x \div 256) * (y % 256) + (x % 256) * (y \div 256)
        low == mid * 256 + (x % 256) * (y % 256)
    IN  <<(x \div 256) * (y \div 256) + low \div 65536, low % 65536>>

\* a * b of two u32: the product modulo 2^32 and whether it overflowed
wrapping_mul(a, b) ==
    LET ll == Mul16(a[2], b[2])
        lh == Mul16(a[2], b[1])
        hl == Mul16(a[1], b[2])
        hh == Mul16(a[1], b[1])
        high == ll[1] + lh[2] + hl[2]
    IN  [value |-> <<high % 65536, ll[2]>>,
         overflow |-> \/ hh # <<0, 0>>
                      \/ lh[1] # 0
                      \/ hl[1] # 0
                      \/ high >= 65536]

\* u32::pow by squaring: base^exp modulo 2^32 and whether a multiplication
\* overflowed, which it does exactly when base^exp >= 2^32
RECURSIVE pow(_, _)
pow(base, exp) ==
    IF exp = 0
    THEN [value |-> <<0, 1>>, overflow |-> FALSE]
    ELSE LET half == pow(base, exp \div 2)
             square == wrapping_mul(half.value, half.value)
             acc == IF exp % 2 = 1
                    THEN wrapping_mul(square.value, base)
                    ELSE square
         IN  [value |-> acc.value,
              overflow |-> half.overflow \/ square.overflow \/ acc.overflow]

(* ------------------------------ util.rs -------------------------------- *)
\* the zero bits above the highest set bit of a 16-bit number, 16 for 0
RECURSIVE leading_zeros16(_)
leading_zeros16(h) == IF h = 0 THEN 16 ELSE leading_zeros16(h \div 2) - 1

\* u32::leading_zeros
leading_zeros(x) ==
    IF x[1] # 0 THEN leading_zeros16(x[1]) ELSE 16 + leading_zeros16(x[2])

\* the position of the highest set bit, floor(log2 x), and 0 for 0
ilog_floor_log2(x) ==
    IF x = <<0, 0>> THEN 0 ELSE BITS - 1 - leading_zeros(x)

\* util::ilog of a u32: BITS as u32 - x.leading_zeros()
ilog(x) == BITS - leading_zeros(x)

\* util::float32_unpack on the word hi * 2^16 + lo.  The result is
\* mantissa * 2^exponent; finite is the value of f.is_finite().
float32_unpack(x) ==
    LET hi == x[1]
        lo == x[2]
        mag == (hi % 32) * 65536 + lo
        sign == hi >= 32768
        exponent == (hi % 32768) \div 32
        mantissa == IF sign THEN 0 - mag ELSE mag
        e == exponent - ExponentBias
    IN  [mantissa |-> mantissa,
         exponent |-> e,
         finite |-> /\ e < F32MaxExp
                    /\ (e < 0 \/ ilog(u32(mag)) + e <= F32MaxExp)]

\* util::lookup1_values.  The loop is run as written, on u32: the value is
\* the one returned when no overflow check stops the loop, and overflow says
\* that a multiplication of (retval + 1).pow(dimensions) overflowed on the
\* way, which is a panic in a build with overflow checks.
RECURSIVE lookup1_loop(_, _, _)
lookup1_loop(retval, entries, dimensions) ==
    LET p == pow(u32(retval + 1), dimensions)
    IN  IF le_u32(p.value, u32(entries))
        THEN LET rest == lookup1_loop(retval + 1, entries, dimensions)
             IN  [value |-> rest.value, overflow |-> p.overflow \/ rest.overflow]
        ELSE [value |-> retval, overflow |-> p.overflow]

\* With dimensions = 0 and entries >= 1 the condition 1 <= entries never
\* becomes false, so the counter runs to the top of u32: the add overflows
\* (a panic with overflow checks, a wrap to 0 and an endless loop without).
lookup1_values(entries, dimensions) ==
    IF dimensions = 0 /\ entries >= 1
    THEN [kind |-> "overflow", value |-> 0]
    ELSE LET res == lookup1_loop(0, entries, dimensions)
         IN  [kind |-> IF res.overflow THEN "mul_overflow" ELSE "value",
              value |-> res.value]

\* a / b of i32 for b > 0: the quotient is rounded towards zero
div_i32(a, b) ==
    IF a >= 0 \/ (a \div b) * b = a THEN a \div b ELSE (a \div b) + 1

abs(a) == IF a < 0 THEN -a ELSE a

\* the i32 a u32 bit pattern stands for
as_i32(x) ==
    IF x[1] >= 32768 THEN (x[1] - 65536) * 65536 + x[2] ELSE x[1] * 65536 + x[2]

\* a * b of two i32, a >= 0: the product modulo 2^32 as an i32, and whether
\* the multiplication overflowed (the product is outside -2^31 .. 2^31 - 1)
mul_i32(a, b) ==
    LET product == wrapping_mul(u32(a), u32(abs(b)))
        wrapped == IF b < 0
                   THEN as_i32(wrapping_mul(product.value, <<65535, 65535>>).value)
                   ELSE as_i32(product.value)
    IN  [value |-> wrapped,
         overflow |-> \/ product.overflow
                      \/ product.value[1] >= 32768
                           /\ ~(b < 0 /\ product.value = <<32768, 0>>)]

\* util::render_point: the value returned when no overflow check stops it,
\* and whether ady * (x - x0) overflowed, a panic in a build with overflow
\* checks.  The arguments keep y1 - y0 and y0 +- off within an i32.
render_point(x0, y0, x1, y1, x) ==
    LET dy == y1 - y0
        adx == x1 - x0
        ady == abs(dy)
        err == mul_i32(ady, x - x0)
        off == div_i32(err.value, adx)
    IN  [overflow |-> err.overflow,
         y |-> IF dy < 0 THEN y0 - off ELSE y0 + off]

\* (0..=v.len()).contains(&(x as usize)): a negative x becomes a usize
\* above every length
range_contains(len, x) == x >= 0 /\ x <= len

\* the last x of `for x in x0 + 1..=x1`, a loop that includes x1
last_x_inclusive(x1) == x1

\* the last x of `for x in x0 + 1..x1`
last_x(x1) == x1 - 1

\* the loop of render_line from x on, with the y and err of the step before
RECURSIVE render_loop(_, _, _, _, _, _, _, _, _)
render_loop(v, x, last, y, err, adx, ady, base, sy) ==
    IF x > last
    THEN v
    ELSE LET step == err + ady >= adx
             y2 == IF step THEN y + sy ELSE y + base
             err2 == IF step THEN err + ady - adx ELSE err + ady
         IN  render_loop([v EXCEPT ![x + 1] = y2], x + 1, last, y2, err2,
                         adx, ady, base, sy)

\* util::render_line: the panic it ends with ("" when it returns) and the
\* buffer it leaves; v[x] of the code is v[x + 1] here
render_line(x0, y0, x1, y1, v) ==
    LET dy == y1 - y0
        adx == x1 - x0
        base == div_i32(dy, adx)
        sy == IF dy < 0 THEN base - 1 ELSE base + 1
        ady == abs(dy) - abs(base) * adx
    IN  IF ~(x0 <= x1)
        THEN [panic |-> "assertion failed: x0 <= x1", v |-> v]
        ELSE IF ~range_contains(Len(v), x0)
        THEN [panic |-> "assertion failed: range.contains(&(x0 as usize))", v |-> v]
        ELSE IF ~range_contains(Len(v), x1)
        THEN [panic |-> "assertion failed: range.contains(&(x1 as usize))", v |-> v]
        ELSE IF adx = 0
        THEN [panic |-> "attempt to divide by zero", v |-> v]
        ELSE IF x0 + 1 > Len(v)
        THEN [panic |-> "index out of bounds", v |-> v]
        ELSE [panic |-> "",
              v |-> render_loop([v EXCEPT ![x0 + 1] = y0], x0 + 1, last_x(x1),
                                y0, 0, adx, ady, base, sy)]

\* the filter of high_neighbor: **i > v[x]
is_higher(i, vx) == i > vx

\* **i <= v[x], a filter that lets the value of v[x] itself through
is_lower_or_equal(i, vx) == i <= vx

\* the filter of low_neighbor: **i < v[x]
is_lower(i, vx) == i < vx

\* util::low_neighbor: the panic it ends with ("" when it returns) and the
\* index returned; v[n] of the code is v[n + 1] here.  Of several elements
\* with the greatest key, max_by_key returns the last.
low_neighbor(v, x) ==
    IF ~(x < Len(v))
    THEN [panic |-> "assertion failed: x < v.len()", n |-> 0]
    ELSE LET range == {n \in 1 .. x : is_lower(v[n], v[x + 1])}
         IN  IF range = {}
             THEN [panic |-> "No values less than v[x]", n |-> 0]
             ELSE [panic |-> "",
                   n |-> (CHOOSE n \in range :
                            \A k \in range :
                                v[k] < v[n] \/ (v[k] = v[n] /\ k <= n)) - 1]

\* util::high_neighbor.  Of several elements with the least key,
\* min_by_key returns the first.
high_neighbor(v, x) ==
    IF ~(x < Len(v))
    THEN [panic |-> "assertion failed: x < v.len()", n |-> 0]
    ELSE LET range == {n \in 1 .. x : is_higher(v[n], v[x + 1])}
         IN  IF range = {}
             THEN [panic |-> "No values greater than v[x]", n |-> 0]
             ELSE [panic |-> "",
                   n |-> (CHOOSE n \in range :
                            \A k \in range :
                                v[k] > v[n] \/ (v[k] = v[n] /\ k >= n)) - 1]

(* ----------------------------- huffman.rs ------------------------------ *)
\* A tree is a function from the paths of its nodes (left = 0, right = 1,
\* the root is <<>>) to the node's value (None for a node without symbol).
NewTree == (<<>> :> None)

HasChild(t, p, b) == Append(p, b) \in DOMAIN t

\* value.is_none(), without the == false of is_leaf
is_leaf_inverted(t, p) == t[p] = None

\* HuffmanNode::is_leaf
is_leaf(t, p) == t[p] # None

\* HuffmanNode::new, a node that forgets the value it is given
with_value_default(value) == None

\* HuffmanNode::with_value: what the new node carries
with_value(value) == value

\* HuffmanNode::add_node that tries the right child before the left one
RECURSIVE node_add_node_right_first(_, _, _, _)
node_add_node_right_first(t, p, length, value) ==
    IF length = 1
    THEN IF ~HasChild(t, p, 1)
         THEN [done |-> TRUE, tree |-> (Append(p, 1) :> value) @@ t]
         ELSE IF ~HasChild(t, p, 0)
              THEN [done |-> TRUE, tree |-> (Append(p, 0) :> value) @@ t]
              ELSE [done |-> FALSE, tree |-> t]
    ELSE LET l == Append(p, 0)
             r == Append(p, 1)
             t1 == IF ~HasChild(t, p, 0) THEN (l :> None) @@ t ELSE t
             goL == ~is_leaf(t1, l)
             resL == node_add_node_right_first(t1, l, length - 1, value)
             t2 == IF goL THEN resL.tree ELSE t1
             t3 == IF ~HasChild(t2, p, 1) THEN (r :> None) @@ t2 ELSE t2
             goR == ~is_leaf(t3, r)
             resR == node_add_node_right_first(t3, r, length - 1, value)
         IN  IF goL /\ resL.done
             THEN resL
             ELSE IF goR /\ resR.done
                  THEN resR
                  ELSE [done |-> FALSE, tree |-> IF goR THEN resR.tree ELSE t3]

\* HuffmanNode::add_node on the node at path p: [done, tree]
RECURSIVE node_add_node(_, _, _, _)
node_add_node(t, p, length, value) ==
    IF length = 1
    THEN IF ~HasChild(t, p, 0)
         THEN [done |-> TRUE, tree |-> (Append(p, 0) :> with_value(value)) @@ t]
         ELSE IF ~HasChild(t, p, 1)
              THEN [done |-> TRUE, tree |-> (Append(p, 1) :> with_value(value)) @@ t]
              ELSE [done |-> FALSE, tree |-> t]
    ELSE LET l == Append(p, 0)
             r == Append(p, 1)
             t1 == IF ~HasChild(t, p, 0) THEN (l :> None) @@ t ELSE t
             goL == ~is_leaf(t1, l)
             resL == node_add_node(t1, l, length - 1, value)
             t2 == IF goL THEN resL.tree ELSE t1
             t3 == IF ~HasChild(t2, p, 1) THEN (r :> None) @@ t2 ELSE t2
             goR == ~is_leaf(t3, r)
             resR == node_add_node(t3, r, length - 1, value)
         IN  IF goL /\ resL.done
             THEN resL
             ELSE IF goR /\ resR.done
                  THEN resR
                  ELSE [done |-> FALSE, tree |-> IF goR THEN resR.tree ELSE t3]

\* HuffmanTree::add_node: panics on length 0 and when no slot was found
add_node(t, length, value) ==
    IF length = 0
    THEN [panic |-> TRUE, msg |-> "Invalid Huffman node depth == 0", tree |-> t]
    ELSE LET res == node_add_node(t, <<>>, length, value)
         IN  [panic |-> ~res.done, msg |-> "assertion failed: done",
              tree |-> res.tree]

\* the loop that sets up the Huffman tree from codeword_lengths
RECURSIVE build_tree(_, _, _)
build_tree(lengths, i, t) ==
    IF i > Len(lengths)
    THEN [panic |-> FALSE, msg |-> "", tree |-> t]
    ELSE IF lengths[i] = None
         THEN build_tree(lengths, i + 1, t)
         ELSE LET res == add_node(t, lengths[i], i - 1)
              IN  IF res.panic THEN res ELSE build_tree(lengths, i + 1, res.tree)


(* ------------------------------- state --------------------------------- *)
VARIABLES
    entry,              \* the function under analysis
    unit,               \* source file of the Codebook::decode that runs
    class,              \* input class the payload is drawn from
    overflow_checks,    \* build profile: arithmetic overflow panics
    pc,                 \* position in the running function
    pos,                \* bits consumed from the reader
    trace,              \* widths of the fields read, in order
    dimensions, entries, ordered, sparse, codeword_lengths,
    current_entry, current_length,
    lookup_type, table, vector_lookup_table, huffman_tree,
    result, err, errval,
    vorbis_codebook_count, codebooks,
    input,              \* the payload, when the input class fixes its bytes
    unexpected_eof,     \* width of the field whose read hit the end of data
    \* Floor::decode
    vorbis_floor_type, floor0, partitions, partition_class_list,
    maximum_class, classes, multiplier, rangebits, x_list,
    \* Mapping::decode
    stream_audio_channels,  \* audio_channels of the stream's ID header
    mapping_type, submaps, coupling_steps, magnitude, angle, mux, submaps_vec,
    \* TimeDomainTransform::decode
    reserved,
    \* util.rs: arguments, return value and buffer of the function called
    retval, x0, y0, x1, y1, buffer,
    lookup_values,      \* the u32 computed for a lookup table, as two halves
    residue_type, begin, end, partition_size, classifications, classbook,
    cascade, books,
    low_bits, high_bits \* of the cascade element read last

reader == <<pos, trace, unexpected_eof>>
config == <<entry, unit, class, overflow_checks>>
header == <<dimensions, entries, ordered>>
lengths == <<sparse, codeword_lengths, current_entry, current_length>>
lookup == <<lookup_type, table, vector_lookup_table>>
outcome == <<result, err, errval>>
setup == <<vorbis_codebook_count, codebooks>>
floor_state == <<vorbis_floor_type, floor0, partitions, partition_class_list,
                 maximum_class, classes, multiplier, rangebits, x_list>>
mapping_state == <<stream_audio_channels, mapping_type, submaps, coupling_steps,
                   magnitude, angle, mux, submaps_vec>>
util_state == <<retval, x0, y0, x1, y1, buffer, lookup_values>>
residue_state == <<residue_type, begin, end, partition_size, classifications,
                   classbook, cascade, books, low_bits, high_bits>>
parts == <<input, floor_state, mapping_state, reserved, util_state, residue_state>>
vars == <<config, pc, reader, header, lengths, lookup, huffman_tree, outcome,
          setup, parts>>

(* ------------------------- inputs of the model ------------------------- *)
\* The payloads are drawn from these classes:
\*   "lengths"  short payloads with any codeword length list, one dimension
\*   "table"    payloads long enough for a vector lookup table, whose
\*              ordered counts are non-zero
\*   "long"     long ordered codebooks of one or two entries whose counts
\*              are 0 or all ones
\*   "setup"    payloads of SetupHeader::from_bytes
\*   "floor"    floors of type 0, 1 or 2 with few partitions and classes
\*   "floor_long"  floors of type 1 with many partitions of one class
\*   "mapping"  payloads of Mapping::decode
\*   "residue"  payloads of Residue::decode
\*   "bytes"    the payload is the byte string held in input, and every
\*              field read has the value of its bits
\* and the runs of add_node calls take any lengths (class "lengths") or
\* the lengths of test_add_node (class "test_add_node"); the functions of
\* util.rs take arguments, not payloads (class "args").
Limit ==
    CASE class = "lengths" -> MaxBytes
      [] class = "table" -> TableBytes
      [] class = "long" -> LongBytes
      [] class = "floor" -> FloorBytes
      [] class = "floor_long" -> LongFloorBytes
      [] class = "mapping" -> MappingBytes
      [] class = "residue" -> ResidueBytes
      [] OTHER -> SetupBytes

SyncTriples == {<<66, 67, 86>>, <<1, 2, 3>>, <<66, 67, 87>>}

DimensionsField == IF class = "table" THEN 0 .. MaxDimensions ELSE {1}

EntriesField ==
    CASE class = "long" -> {1, 2}
      [] class = "setup" -> 0 .. 2
      [] OTHER -> 0 .. MaxEntries

\* values of a codeword length field of the given width
LengthField(bits) ==
    CASE bits = 1 -> {0, 1}
      [] class = "table" -> {1, 2}
      [] OTHER -> {0, 1, 2, 31}

\* values of a count field of the ordered loop
NumberField(bits) ==
    CASE class = "long" -> {0, Pow2(bits) - 1}
      [] class = "table" -> 1 .. (Pow2(bits) - 1)
      [] OTHER -> 0 .. (Pow2(bits) - 1)

LookupTypeField ==
    CASE class = "long" -> {0, 3}
      [] class = "setup" -> {0, 1, 3}
      [] class = "table" -> 0 .. 15
      [] OTHER -> {0, 1, 2, 3, 15}

\* packed floats as <<high half, low half>>: 1.0 (0x62800001),
\* -1000000.0 (0xE28F4240), 2^128 (0x72800001) and 0 * 2^235 (0x7FE00000)
FloatWords ==
    IF class = "table"
    THEN {<<25216, 1>>, <<57999, 16960>>, <<29312, 1>>, <<32736, 0>>}
    ELSE {<<25216, 1>>, <<29312, 1>>}

ValueBitsField == IF class = "table" THEN {0, 3, 15} ELSE {0, 15}

\* values of a multiplicand of the given width
MultiplicandField(bits) == IF bits = 1 THEN {1} ELSE {0, Pow2(bits) - 1}

CodebookCountField == {0, 1, U8Max}

(* ----------------------------- bit reader ------------------------------ *)
\* the lengths, in bytes, the payload can have
PayloadLengths == IF class = "bytes" THEN {Len(input)} ELSE 0 .. Limit

\* the payload can hold n more bits
CanRead(n) == pos + n <= 8 * (IF class = "bytes" THEN Len(input) ELSE Limit)

\* the payload can end before the next n bits are complete
CanEof(n) == \E L \in PayloadLengths : pos <= 8 * L /\ 8 * L < pos + n

RECURSIVE SumSeq(_)
SumSeq(s) == IF s = <<>> THEN 0 ELSE Head(s) + SumSeq(Tail(s))

Consume(widths) ==
    /\ CanRead(SumSeq(widths))
    /\ pos' = pos + SumSeq(widths)
    /\ trace' = trace \o widths
    /\ UNCHANGED unexpected_eof

\* the bit at offset p of a byte stream that hands out the highest bit of
\* each byte first
bit_at_msb_first(bytes, p) == (bytes[(p \div 8) + 1] \div Pow2(7 - (p % 8))) % 2

\* the bit at bit offset p of the payload bytes for a little-endian
\* BitReader: the lowest bit of each byte comes first
bit_at(bytes, p) == (bytes[(p \div 8) + 1] \div Pow2(p % 8)) % 2

\* the value of the n bits at bit offset p of the payload bytes, read by a
\* little-endian BitReader: the bits of a byte are taken lowest first and
\* the first bit read is the lowest bit of the value
RECURSIVE read_le(_, _, _)
read_le(bytes, p, n) ==
    IF n = 0 \/ (p \div 8) + 1 > Len(bytes)
    THEN 0
    ELSE bit_at(bytes, p) + 2 * read_le(bytes, p + 1, n - 1)

\* the values a field of n bits at offset off after pos can have: the
\* bits of the payload when the input class fixes its bytes, any value of
\* the set S otherwise
FieldAt(off, n, S) ==
    IF class = "bytes" THEN {read_le(input, pos + off, n)} ELSE S

Field(n, S) == FieldAt(0, n, S)

(* ------------------------------ outcomes ------------------------------- *)
Panic(msg) ==
    /\ pc' = "done"
    /\ result' = "panic"
    /\ err' = msg
    /\ errval' = <<>>

\* an error of Codebook::decode (errval holds the values the error carries;
\* IOError is always UnexpectedEof): an Err value in codebook.rs, while the
\* decode of vorbis.rs unwraps, asserts or panics at the same places
Fail(e, v) ==
    IF unit = "vorbis.rs"
    THEN Panic(e)
    ELSE /\ pc' = "done"
         /\ result' = "Err"
         /\ err' = e
         /\ errval' = v

\* a read that hits the end of the payload and is unwrapped
Eof_unwrap(n) ==
    /\ CanEof(n)
    /\ Panic("called Result::unwrap() on an Err value")
    /\ unexpected_eof' = n
    /\ UNCHANGED <<pos, trace>>

\* the ? operator on a read that hits the end of the payload
Eof(n) ==
    /\ CanEof(n)
    /\ Fail("IOError", <<>>)
    /\ unexpected_eof' = n
    /\ UNCHANGED <<pos, trace>>


(* --------------------- Codebook::decode, step by step ------------------ *)
EmptyTable ==
    [minimum_value |-> <<0, 0>>, delta_value |-> <<0, 0>>, value_bits |-> 0,
     sequence_p |-> FALSE, lookup_values |-> 0, multiplicands |-> <<>>]

\* a length field of 1 bit everywhere, as in the decode of vorbis.rs
LengthBits_one_bit == 1

\* width of a codeword length field: 5 bits in codebook.rs; the decode of
\* vorbis.rs reads 1 bit
LengthBits == IF unit = "vorbis.rs" THEN 1 ELSE 5

\* width of the initial length field of the ordered branch
InitialLengthBits == 1

\* the value stored in sparse: Option<bool> in codebook.rs, bool in vorbis.rs
SparseValue(b) ==
    IF unit = "vorbis.rs"
    THEN (IF b THEN "true" ELSE "false")
    ELSE (IF b THEN "Some(true)" ELSE "Some(false)")

\* let sync_pattern = [read(8)?, read(8)?, read(8)?]; compare with "BCV"
ReadSync ==
    /\ pc = "sync"
    /\ \/ Eof(24) /\ UNCHANGED <<header, lengths, lookup, huffman_tree>>
       \/ \E s \in SyncTriples :
            /\ Consume(<<8, 8, 8>>)
            /\ IF s # SyncPattern
               THEN Fail("InvalidSyncPattern", s)
               ELSE pc' = "header" /\ UNCHANGED outcome
            /\ UNCHANGED <<header, lengths, lookup, huffman_tree>>
    /\ UNCHANGED <<config, parts, setup>>

\* dimensions = read(16)?, entries = read(24)?, ordered = read_bit()?
ReadHeader ==
    /\ pc = "header"
    /\ \/ Eof(41) /\ UNCHANGED header
       \/ \E d \in DimensionsField, e \in EntriesField, o \in BOOLEAN :
            /\ Consume(<<16, 24, 1>>)
            /\ dimensions' = d
            /\ entries' = e
            /\ ordered' = o
            /\ pc' = IF o THEN "initial_length" ELSE "sparse"
            /\ UNCHANGED outcome
    /\ UNCHANGED <<config, parts, lengths, lookup, huffman_tree, setup>>

\* sparse = Some(read_bit()?)  (a plain bool in vorbis.rs)
ReadSparse ==
    /\ pc = "sparse"
    /\ \/ Eof(1) /\ UNCHANGED lengths
       \/ \E b \in BOOLEAN :
            /\ Consume(<<1>>)
            /\ sparse' = SparseValue(b)
            /\ pc' = IF entries = 0 THEN "lookup_type" ELSE "entry"
            /\ UNCHANGED <<codeword_lengths, current_entry, current_length, outcome>>
    /\ UNCHANGED <<config, parts, header, lookup, huffman_tree, setup>>

\* one iteration of `for _ in 0..entries` of the unordered branch
ReadEntry ==
    /\ pc = "entry"
    /\ Len(codeword_lengths) < entries
    /\ LET push(l) == /\ codeword_lengths' = Append(codeword_lengths, l)
                      /\ pc' = IF Len(codeword_lengths) + 1 = entries
                               THEN "lookup_type" ELSE "entry"
                      /\ UNCHANGED outcome
       IN  IF sparse \in {"Some(true)", "true"}
           THEN \/ Eof(1 + LengthBits) /\ UNCHANGED codeword_lengths
                \/ Consume(<<1>>) /\ push(None)
                \/ \E v \in LengthField(LengthBits) :
                      /\ Consume(<<1, LengthBits>>)
                      /\ push(v + 1)
           ELSE \/ Eof(LengthBits) /\ UNCHANGED codeword_lengths
                \/ \E v \in LengthField(LengthBits) :
                      /\ Consume(<<LengthBits>>)
                      /\ push(v + 1)
    /\ UNCHANGED <<config, parts, header, sparse, current_entry, current_length,
                   lookup, huffman_tree, setup>>

\* let mut current_entry = 0; let mut current_length = read::<u8>(1)? + 1
ReadInitialLength ==
    /\ pc = "initial_length"
    /\ \/ Eof(InitialLengthBits) /\ UNCHANGED lengths
       \/ \E v \in LengthField(InitialLengthBits) :
            /\ Consume(<<InitialLengthBits>>)
            /\ current_entry' = 0
            /\ current_length' = v + 1
            /\ pc' = "ordered_loop"
            /\ UNCHANGED <<sparse, codeword_lengths, outcome>>
    /\ UNCHANGED <<config, parts, header, lookup, huffman_tree, setup>>

RECURSIVE Repeat(_, _)
Repeat(x, n) == IF n = 0 THEN <<>> ELSE <<x>> \o Repeat(x, n - 1)

\* one iteration of `while current_entry < entries`
ReadNumber ==
    /\ pc = "ordered_loop"
    /\ current_entry < entries
    /\ LET bits_to_read == ilog(u32(entries - current_entry))
       IN  \/ Eof(bits_to_read) /\ UNCHANGED lengths
           \/ \E number \in NumberField(bits_to_read) :
                /\ Consume(<<bits_to_read>>)
                /\ codeword_lengths' =
                       codeword_lengths \o Repeat(current_length, number)
                /\ current_entry' = current_entry + number
                /\ UNCHANGED sparse
                /\ IF current_length = U8Max /\ overflow_checks
                   THEN Panic("attempt to add with overflow")
                        /\ UNCHANGED current_length
                   ELSE /\ current_length' = (current_length + 1) % (U8Max + 1)
                        /\ IF unit = "vorbis.rs" /\ current_entry + number > entries
                           THEN Panic("Error: too many codebook entries!")
                           ELSE pc' = "ordered_loop" /\ UNCHANGED outcome
    /\ UNCHANGED <<config, parts, header, lookup, huffman_tree, setup>>

\* the loop has ended: if current_entry > entries return TooManyEntries
ExitOrdered ==
    /\ pc = "ordered_loop"
    /\ ~(current_entry < entries)
    /\ IF current_entry > entries
       THEN Fail("TooManyEntries", <<current_entry>>)
       ELSE pc' = "lookup_type" /\ UNCHANGED outcome
    /\ UNCHANGED <<config, parts, reader, header, lengths, lookup, huffman_tree, setup>>

\* arms that take the reserved type 3 for a table type
lookup_arm_accepts_3(x) ==
    IF x = 0 THEN "none" ELSE IF x \in {1, 2, 3} THEN "table" ELSE "invalid"

\* the arms of `match lookup_type`
lookup_arm(x) ==
    IF x = 0 THEN "none" ELSE IF x \in {1, 2} THEN "table" ELSE "invalid"

\* let lookup_type: u8 = read(4)?; match lookup_type
ReadLookupType ==
    /\ pc = "lookup_type"
    /\ \/ Eof(4) /\ UNCHANGED lookup_type
       \/ \E x \in LookupTypeField :
            /\ Consume(<<4>>)
            /\ lookup_type' = x
            /\ IF lookup_arm(x) = "none"
               THEN pc' = "huffman" /\ UNCHANGED outcome
               ELSE IF lookup_arm(x) = "table"
                    THEN pc' = "table" /\ UNCHANGED outcome
                    ELSE Fail("InvalidLookupType", <<x>>)
    /\ UNCHANGED <<config, parts, header, lengths, table, vector_lookup_table,
                   huffman_tree, setup>>

\* the payload can end inside the n bits that start at offset p
CanEofAt(p, n) == \E L \in PayloadLengths : p <= 8 * L /\ 8 * L < p + n

\* lookup_values of a table: lookup1_values for type 1, the product
\* entries * dimensions for type 2
\* As a u32: the product is entries * dimensions as u32, a multiplication
\* of u32 that overflows from 2^32 on (kind "mul_overflow": a panic with
\* overflow checks, the product modulo 2^32 without).
lookup_values_for(type, e, d) ==
    IF type = 1
    THEN LET res == lookup1_values(e, d)
         IN  [kind |-> res.kind, value |-> u32(res.value)]
    ELSE LET product == wrapping_mul(u32(e), u32(d))
         IN  [kind |-> IF product.overflow THEN "mul_overflow" ELSE "value",
              value |-> product.value]

\* minimum_value, delta_value, value_bits, sequence_p and lookup_values
ReadTable ==
    /\ pc = "table"
    /\ \/ Eof(32) /\ UNCHANGED table
       \/ \E w \in FloatWords :
            /\ CanRead(32)
            /\ ~float32_unpack(w).finite
            /\ Panic("assertion failed: f.is_finite()")
            /\ UNCHANGED <<reader, table>>
       \/ \E w1 \in FloatWords :
            /\ float32_unpack(w1).finite
            /\ CanRead(32)
            /\ \/ /\ CanEofAt(pos + 32, 32)
                  /\ Fail("IOError", <<>>)
                  /\ unexpected_eof' = 32
                  /\ UNCHANGED <<pos, trace, table>>
               \/ \E w2 \in FloatWords :
                    /\ CanRead(64)
                    /\ IF ~float32_unpack(w2).finite
                       THEN /\ Panic("assertion failed: f.is_finite()")
                            /\ UNCHANGED <<reader, table>>
                       ELSE \/ /\ CanEofAt(pos + 64, 5)
                               /\ Fail("IOError", <<>>)
                               /\ unexpected_eof' = 5
                               /\ UNCHANGED <<pos, trace, table>>
                            \/ \E vb \in ValueBitsField, sp \in BOOLEAN :
                                 LET lv == lookup_values_for(lookup_type, entries, dimensions)
                                 IN  /\ Consume(<<32, 32, 4, 1>>)
                                     /\ table' = [minimum_value |-> float32_unpack(w1),
                                                  delta_value |-> float32_unpack(w2),
                                                  value_bits |-> vb + 1,
                                                  sequence_p |-> sp,
                                                  lookup_values |-> value_of(lv.value),
                                                  multiplicands |-> <<>>]
                                     /\ IF lv.kind = "overflow"
                                        THEN IF overflow_checks
                                             THEN Panic("attempt to add with overflow")
                                             ELSE /\ pc' = "lookup1_values"
                                                  /\ UNCHANGED outcome
                                        ELSE IF lv.kind = "mul_overflow" /\ overflow_checks
                                        THEN Panic("attempt to multiply with overflow")
                                        ELSE /\ pc' = "multiplicands"
                                             /\ UNCHANGED outcome
    /\ UNCHANGED <<config, parts, header, lengths, lookup_type, vector_lookup_table,
                   huffman_tree, setup>>

\* one read of (0..lookup_values).map(|_| read(value_bits))
ReadMultiplicand ==
    /\ pc = "multiplicands"
    /\ Len(table.multiplicands) < table.lookup_values
    /\ \/ Eof(table.value_bits) /\ UNCHANGED table
       \/ \E v \in MultiplicandField(table.value_bits) :
            /\ Consume(<<table.value_bits>>)
            /\ table' = [table EXCEPT !.multiplicands = Append(@, v)]
            /\ UNCHANGED <<pc, outcome>>
    /\ UNCHANGED <<config, parts, header, lengths, lookup_type, vector_lookup_table,
                   huffman_tree, setup>>

\* Some(VectorLookupTable { .. }) once every multiplicand is read
MakeTable ==
    /\ pc = "multiplicands"
    /\ Len(table.multiplicands) = table.lookup_values
    /\ vector_lookup_table' = <<table>>
    /\ pc' = "huffman"
    /\ UNCHANGED <<config, parts, reader, header, lengths, lookup_type, table,
                   huffman_tree, outcome, setup>>

\* set up the Huffman tree from codeword_lengths, then Ok(Self { .. })
Finish ==
    /\ pc = "huffman"
    /\ LET res == build_tree(codeword_lengths, 1, NewTree)
       IN  IF res.panic
           THEN Panic(res.msg) /\ UNCHANGED huffman_tree
           ELSE /\ huffman_tree' = res.tree
                /\ IF unit = "vorbis.rs"
                   THEN pc' = "push" /\ UNCHANGED outcome
                   ELSE /\ pc' = "done"
                        /\ result' = "Ok"
                        /\ UNCHANGED <<err, errval>>
    /\ UNCHANGED <<config, parts, reader, header, lengths, lookup, setup>>

(* ------------------ SetupHeader::from_bytes (vorbis.rs) ---------------- *)
\* the Codebook value that the decode of vorbis.rs returns; its lookup_type
\* field is never assigned and keeps the default
ReturnedCodebook ==
    [dimensions |-> dimensions, entries |-> entries, ordered |-> ordered,
     sparse |-> sparse, codeword_lengths |-> codeword_lengths,
     lookup_type |-> 0, vector_lookup_table |-> vector_lookup_table,
     huffman_tree |-> huffman_tree]

\* let vorbis_codebook_count: u8 = reader.read::<u8>(8).unwrap() + 1
ReadCodebookCount ==
    /\ pc = "count"
    /\ \/ /\ CanEof(8)
          /\ Fail("IOError", <<>>)
          /\ unexpected_eof' = 8
          /\ UNCHANGED <<pos, trace, vorbis_codebook_count>>
       \/ \E v \in CodebookCountField :
            /\ Consume(<<8>>)
            /\ IF v = U8Max /\ overflow_checks
               THEN Panic("attempt to add with overflow")
                    /\ UNCHANGED vorbis_codebook_count
               ELSE /\ vorbis_codebook_count' = (v + 1) % (U8Max + 1)
                    /\ pc' = "codebooks"
                    /\ UNCHANGED outcome
    /\ UNCHANGED <<config, parts, header, lengths, lookup, huffman_tree, codebooks>>

\* for _ in 0..vorbis_codebook_count: enter Codebook::decode(&mut reader)
CallDecode ==
    /\ pc = "codebooks"
    /\ Len(codebooks) < vorbis_codebook_count
    /\ pc' = "sync"
    /\ dimensions' = 0
    /\ entries' = 0
    /\ ordered' = FALSE
    /\ sparse' = "false"
    /\ codeword_lengths' = <<>>
    /\ current_entry' = 0
    /\ current_length' = 0
    /\ lookup_type' = None
    /\ table' = EmptyTable
    /\ vector_lookup_table' = <<>>
    /\ huffman_tree' = NewTree
    /\ UNCHANGED <<config, parts, reader, outcome, setup>>

\* codebooks.push(codebook)
PushCodebook ==
    /\ pc = "push"
    /\ codebooks' = Append(codebooks, ReturnedCodebook)
    /\ pc' = "codebooks"
    /\ UNCHANGED <<config, parts, reader, header, lengths, lookup, huffman_tree,
                   outcome, vorbis_codebook_count>>

\* todo!() after the codebook loop
Todo ==
    /\ pc = "codebooks"
    /\ Len(codebooks) = vorbis_codebook_count
    /\ Panic("not yet implemented")
    /\ UNCHANGED <<config, parts, reader, header, lengths, lookup, huffman_tree, setup>>


(* ------------------------ Floor::decode (floor.rs) --------------------- *)
\* the inputs of test_floor_decode: Frampton floor config 0, and the
\* payload whose x_list is too long
TestFloorInput ==
    <<1, 0, 6, 34, 100, 38, 16, 40, 128, 2, 3, 25, 0, 112, 128, 144, 32, 5,
      0, 20, 22, 24, 58, 134, 139, 128, 128, 92, 66, 70, 129, 65, 225, 152,
      112, 78, 58, 109>>

RECURSIVE Zeros(_)
Zeros(n) == IF n = 0 THEN <<>> ELSE <<0>> \o Zeros(n - 1)

TestFloorInputTooLong ==
    <<1, 0, 30>> \o Zeros(12) \o SubSeq(TestFloorInput, 4, 38) \o Zeros(42)

FloorTypeField == IF class = "floor_long" THEN {1} ELSE {0, 1, 2}

\* the scalar fields of a Floor0, as read (number_of_books before the + 1)
Floor0Fields ==
    {[order |-> o, rate |-> 0, bark_map_size |-> 65535, amplitude_bits |-> 63,
      amplitude_offset |-> 0, number_of_books |-> n, book_list |-> <<>>] :
        o \in {0, 255}, n \in {0, 1, 15}}

BookListField == IF floor0.number_of_books > 2 THEN {0} ELSE {0, 255}

PartitionsField ==
    IF class = "floor_long" THEN {8, 9, 13, 21, 31} ELSE 0 .. MaxPartitions

\* (the first two partitions take every class, the later ones class 0)
PartitionClassField ==
    IF class = "floor_long" \/ Len(partition_class_list) > 1
    THEN {0}
    ELSE 0 .. MaxClass

ClassDimensionsField ==
    IF class = "floor_long" THEN {2, 4, 6, 7}
    ELSE IF Len(classes) > 1 THEN {0} ELSE {0, 1}

\* (the first class of a payload takes every shape, the later ones have no
\* subclasses)
SubclassesField ==
    IF class = "floor_long" \/ Len(classes) > 0 THEN {0} ELSE {0, 1, 3}

MasterbooksField == {7}

\* the stored bytes of the n subclass books of a class
SubclassBooksField(n) ==
    IF class = "floor_long" \/ n > 2
    THEN {[i \in 1 .. n |-> 0]}
    ELSE {[i \in 1 .. n |-> 0], [i \in 1 .. n |-> 255], [i \in 1 .. n |-> i]}

MultiplierField == IF class = "floor_long" THEN {0} ELSE {0, 3}

RangebitsField == IF class = "floor_long" THEN {0, 1} ELSE {0, 7}

\* (the first two values read take the extremes of the field)
XField(bits) ==
    IF class = "floor_long" \/ Len(x_list) > 3 THEN {0} ELSE {0, Pow2(bits) - 1}

\* the variables Floor::decode leaves alone
FloorRest ==
    <<config, header, lengths, lookup, huffman_tree, setup, input,
      mapping_state, reserved, util_state, residue_state>>

\* let vorbis_floor_type = reader.read::<u16>(16)?; match vorbis_floor_type
ReadFloorType ==
    /\ pc = "floor_type"
    /\ \/ Eof(16) /\ UNCHANGED vorbis_floor_type
       \/ \E t \in Field(16, FloorTypeField) :
            /\ Consume(<<16>>)
            /\ vorbis_floor_type' = t
            /\ IF t = 0
               THEN pc' = "floor0" /\ UNCHANGED outcome
               ELSE IF t = 1
                    THEN pc' = "partitions" /\ UNCHANGED outcome
                    ELSE Fail("InvalidFloorType", <<t>>)
    /\ UNCHANGED <<FloorRest, floor0, partitions, partition_class_list,
                   maximum_class, classes, multiplier, rangebits, x_list>>

\* Floor0::decode: order, rate, bark_map_size, amplitude_bits,
\* amplitude_offset and number_of_books
ReadFloor0 ==
    /\ pc = "floor0"
    /\ \/ Eof(58) /\ UNCHANGED floor0
       \/ \E f \in Floor0Fields :
            /\ Consume(<<8, 16, 16, 6, 8, 4>>)
            /\ floor0' =
                 [order |-> CHOOSE x \in FieldAt(0, 8, {f.order}) : TRUE,
                  rate |-> CHOOSE x \in FieldAt(8, 16, {f.rate}) : TRUE,
                  bark_map_size |->
                      CHOOSE x \in FieldAt(24, 16, {f.bark_map_size}) : TRUE,
                  amplitude_bits |->
                      CHOOSE x \in FieldAt(40, 6, {f.amplitude_bits}) : TRUE,
                  amplitude_offset |->
                      CHOOSE x \in FieldAt(46, 8, {f.amplitude_offset}) : TRUE,
                  number_of_books |->
                      (CHOOSE x \in FieldAt(54, 4, {f.number_of_books}) : TRUE) + 1,
                  book_list |-> <<>>]
            /\ pc' = "floor0_books"
            /\ UNCHANGED outcome
    /\ UNCHANGED <<FloorRest, vorbis_floor_type, partitions, partition_class_list,
                   maximum_class, classes, multiplier, rangebits, x_list>>

\* one read of (0..number_of_books).map(|_| reader.read(8))
ReadBook ==
    /\ pc = "floor0_books"
    /\ Len(floor0.book_list) < floor0.number_of_books
    /\ \/ Eof(8) /\ UNCHANGED floor0
       \/ \E b \in Field(8, BookListField) :
            /\ Consume(<<8>>)
            /\ floor0' = [floor0 EXCEPT !.book_list = Append(@, b)]
            /\ UNCHANGED <<pc, outcome>>
    /\ UNCHANGED <<FloorRest, vorbis_floor_type, partitions, partition_class_list,
                   maximum_class, classes, multiplier, rangebits, x_list>>

\* Ok(Self::Zero(Floor0 { .. }))
FinishFloor0 ==
    /\ pc = "floor0_books"
    /\ Len(floor0.book_list) = floor0.number_of_books
    /\ pc' = "done"
    /\ result' = "Ok"
    /\ UNCHANGED <<FloorRest, reader, floor_state, err, errval>>

\* Floor1::decode: let partitions = reader.read(5)?
ReadPartitions ==
    /\ pc = "partitions"
    /\ \/ Eof(5) /\ UNCHANGED partitions
       \/ \E n \in Field(5, PartitionsField) :
            /\ Consume(<<5>>)
            /\ partitions' = n
            /\ pc' = "partition_class"
            /\ UNCHANGED outcome
    /\ UNCHANGED <<FloorRest, vorbis_floor_type, floor0, partition_class_list,
                   maximum_class, classes, multiplier, rangebits, x_list>>

\* one read of (0..partitions).map(|_| reader.read(4))
ReadPartitionClass ==
    /\ pc = "partition_class"
    /\ Len(partition_class_list) < partitions
    /\ \/ Eof(4) /\ UNCHANGED partition_class_list
       \/ \E c \in Field(4, PartitionClassField) :
            /\ Consume(<<4>>)
            /\ partition_class_list' = Append(partition_class_list, c)
            /\ UNCHANGED <<pc, outcome>>
    /\ UNCHANGED <<FloorRest, vorbis_floor_type, floor0, partitions,
                   maximum_class, classes, multiplier, rangebits, x_list>>

\* the greatest element of a non-empty list
MaxOf(list) ==
    CHOOSE m \in {list[i] : i \in DOMAIN list} :
        \A i \in DOMAIN list : list[i] <= m

\* partition_class_list.iter().copied().max().unwrap()
MaximumClass ==
    /\ pc = "partition_class"
    /\ Len(partition_class_list) = partitions
    /\ IF partition_class_list = <<>>
       THEN Panic("called Option::unwrap() on a None value")
            /\ UNCHANGED maximum_class
       ELSE /\ maximum_class' = MaxOf(partition_class_list)
            /\ pc' = "class"
            /\ UNCHANGED outcome
    /\ UNCHANGED <<FloorRest, reader, vorbis_floor_type, floor0, partitions,
                   partition_class_list, classes, multiplier, rangebits, x_list>>

\* the widths of the fields of a class that follow dimensions and
\* subclasses: masterbooks when subclasses > 0, then 2^subclasses books
ClassWidths(subclasses) ==
    (IF subclasses > 0 THEN <<8>> ELSE <<>>)
        \o [i \in 1 .. Pow2(subclasses) |-> 8]

\* the stored byte minus 1 within a byte: 0 becomes 0xFF
subclass_book_wrapping(stored) == (stored - 1) % (U8Max + 1)

\* reader.read::<i32>(8).map(|i| i - 1): the stored byte minus 1, as an i32
subclass_book(stored) == stored - 1

\* one iteration of `for _ in 0..=maximum_class`
ReadClass ==
    /\ pc = "class"
    /\ Len(classes) <= maximum_class
    /\ \/ Eof(5) /\ UNCHANGED classes
       \/ \E d \in FieldAt(0, 3, ClassDimensionsField),
             sub \in FieldAt(3, 2, SubclassesField) :
            LET widths == ClassWidths(sub)
                off == IF sub > 0 THEN 13 ELSE 5
            IN  /\ CanRead(5)
                /\ \/ /\ CanEofAt(pos + 5, SumSeq(widths))
                      /\ Fail("IOError", <<>>)
                      /\ unexpected_eof' = 8
                      /\ UNCHANGED <<pos, trace, classes>>
                   \/ \E m \in FieldAt(5, 8, MasterbooksField),
                         stored \in SubclassBooksField(Pow2(sub)) :
                        /\ Consume(<<3, 2>> \o widths)
                        /\ classes' = Append(classes,
                             [dimensions |-> d + 1,
                              subclasses |-> sub,
                              masterbooks |-> IF sub > 0 THEN m ELSE None,
                              subclass_books |->
                                  [i \in 1 .. Pow2(sub) |->
                                      subclass_book(
                                          CHOOSE x \in FieldAt(off + 8 * (i - 1), 8,
                                                               {stored[i]}) : TRUE)]])
                        /\ UNCHANGED <<pc, outcome>>
    /\ UNCHANGED <<FloorRest, vorbis_floor_type, floor0, partitions,
                   partition_class_list, maximum_class, multiplier, rangebits,
                   x_list>>

\* multiplier, rangebits and let mut x_list = vec![0, 2u32.pow(rangebits)]
ReadMultiplier ==
    /\ pc = "class"
    /\ Len(classes) = maximum_class + 1
    /\ \/ Eof(6) /\ UNCHANGED <<multiplier, rangebits, x_list>>
       \/ \E m \in FieldAt(0, 2, MultiplierField),
             r \in FieldAt(2, 4, RangebitsField) :
            /\ Consume(<<2, 4>>)
            /\ multiplier' = m + 1
            /\ rangebits' = r
            /\ x_list' = <<0, Pow2(r)>>
            /\ pc' = "x_list"
            /\ UNCHANGED outcome
    /\ UNCHANGED <<FloorRest, vorbis_floor_type, floor0, partitions,
                   partition_class_list, maximum_class, classes>>

\* the number of values the loops over partition_class_list read: the sum
\* of classes[current_class_number].dimensions
RECURSIVE XListValues(_, _)
XListValues(list, cs) ==
    IF list = <<>>
    THEN 0
    ELSE cs[Head(list) + 1].dimensions + XListValues(Tail(list), cs)

\* one read of x_list.push(reader.read::<u32>(rangebits)?)
ReadX ==
    /\ pc = "x_list"
    /\ Len(x_list) - 2 < XListValues(partition_class_list, classes)
    /\ \/ Eof(rangebits) /\ UNCHANGED x_list
       \/ \E val \in Field(rangebits, XField(rangebits)) :
            /\ Consume(<<rangebits>>)
            /\ x_list' = Append(x_list, val)
            /\ UNCHANGED <<pc, outcome>>
    /\ UNCHANGED <<FloorRest, vorbis_floor_type, floor0, partitions,
                   partition_class_list, maximum_class, classes, multiplier,
                   rangebits>>

\* x_list.len() >= 65, an off-by-one form of the length test
x_list_too_long_at_65(len) == len >= 65

\* x_list.len() > 65
x_list_too_long(len) == len > 65

\* if x_list.len() > 65 { return Err(XListTooLong(x_list.len())) }; Ok(..)
CheckXList ==
    /\ pc = "x_list"
    /\ Len(x_list) - 2 = XListValues(partition_class_list, classes)
    /\ IF x_list_too_long(Len(x_list))
       THEN Fail("XListTooLong", <<Len(x_list)>>)
       ELSE /\ pc' = "done"
            /\ result' = "Ok"
            /\ UNCHANGED <<err, errval>>
    /\ UNCHANGED <<FloorRest, reader, floor_state>>

FloorStep ==
    \/ ReadFloorType
    \/ ReadFloor0
    \/ ReadBook
    \/ FinishFloor0
    \/ ReadPartitions
    \/ ReadPartitionClass
    \/ MaximumClass
    \/ ReadClass
    \/ ReadMultiplier
    \/ ReadX
    \/ CheckXList

(* --------------------------- specifications ---------------------------- *)
EmptyFloor0 ==
    [order |-> 0, rate |-> 0, bark_map_size |-> 0, amplitude_bits |-> 0,
     amplitude_offset |-> 0, number_of_books |-> 0, book_list |-> <<>>]

\* Floor::decode has read nothing yet
InitFloor ==
    /\ vorbis_floor_type = None
    /\ floor0 = EmptyFloor0
    /\ partitions = 0
    /\ partition_class_list = <<>>
    /\ maximum_class = None
    /\ classes = <<>>
    /\ multiplier = 0
    /\ rangebits = 0
    /\ x_list = <<>>

\* Mapping::decode has read nothing yet
InitMapping ==
    /\ mapping_type = None
    /\ submaps = 0
    /\ coupling_steps = 0
    /\ magnitude = <<>>
    /\ angle = <<>>
    /\ mux = <<>>
    /\ submaps_vec = <<>>

\* no function of util.rs has been called
InitUtil ==
    /\ retval = 0
    /\ x0 = 0
    /\ y0 = 0
    /\ x1 = 0
    /\ y1 = 0
    /\ buffer = <<>>
    /\ lookup_values = <<0, 0>>

\* no Residue is being decoded
InitResidue ==
    /\ residue_type = None
    /\ begin = 0
    /\ end = 0
    /\ partition_size = 0
    /\ classifications = 0
    /\ classbook = 0
    /\ cascade = <<>>
    /\ books = <<>>
    /\ low_bits = 0
    /\ high_bits = 0

\* the state of the decoders and functions that are not running
InitParts ==
    /\ input = <<>>
    /\ InitFloor
    /\ stream_audio_channels = 1
    /\ InitMapping
    /\ reserved = None
    /\ InitUtil
    /\ InitResidue

\* a fresh reader and the locals of Codebook::decode and from_bytes
InitDecoder ==
    /\ pos = 0
    /\ trace = <<>>
    /\ dimensions = 0
    /\ entries = 0
    /\ ordered = FALSE
    /\ codeword_lengths = <<>>
    /\ current_entry = 0
    /\ current_length = 0
    /\ lookup_type = None
    /\ table = EmptyTable
    /\ vector_lookup_table = <<>>
    /\ huffman_tree = NewTree
    /\ result = "running"
    /\ err = ""
    /\ errval = <<>>
    /\ vorbis_codebook_count = 0
    /\ codebooks = <<>>
    /\ unexpected_eof = 0

InitLocals == InitDecoder /\ InitParts

\* Codebook::decode of codebook.rs on a fresh reader
Init ==
    /\ entry = "Codebook::decode"
    /\ unit = "codebook.rs"
    /\ class \in {"lengths", "table", "long"}
    /\ overflow_checks \in BOOLEAN
    /\ pc = "sync"
    /\ sparse = "None"
    /\ InitLocals

DecodeStep ==
    \/ ReadSync
    \/ ReadHeader
    \/ ReadSparse
    \/ ReadEntry
    \/ ReadInitialLength
    \/ ReadNumber
    \/ ExitOrdered
    \/ ReadLookupType
    \/ ReadTable
    \/ ReadMultiplicand
    \/ MakeTable
    \/ Finish

Next == DecodeStep

Spec == Init /\ [][Next]_vars

\* SetupHeader::from_bytes of vorbis.rs on a fresh payload
InitSetup ==
    /\ entry = "SetupHeader::from_bytes"
    /\ unit = "vorbis.rs"
    /\ class = "setup"
    /\ overflow_checks \in BOOLEAN
    /\ pc = "count"
    /\ sparse = "false"
    /\ InitLocals

NextSetup ==
    \/ ReadCodebookCount
    \/ CallDecode
    \/ PushCodebook
    \/ Todo
    \/ DecodeStep

SpecSetup == InitSetup /\ [][NextSetup]_vars

(* ----------------------- Mapping::decode, step by step ----------------- *)
\* let audio_channels: u8 = 1 (the ID header's audio_channels is not used)
audio_channels == 1

MappingTypeField == {0, 1}

SubmapsField == {0, 1, 15}

CouplingStepsField == {0, 1, 255}

MappingReservedField == {0, 1, 3}

MuxField == {0, 1, 2, 15}

\* floor and residue of the Submap that is read next
SubmapField == IF Len(submaps_vec) < 2 THEN {0, 255} ELSE {0}

\* what Mapping::decode leaves alone
MappingRest ==
    <<config, header, lengths, lookup, huffman_tree, setup, input,
      floor_state, reserved, util_state, residue_state, stream_audio_channels>>

\* let mapping_type = reader.read(16)?
ReadMappingType ==
    /\ pc = "mapping_type"
    /\ \/ Eof(16) /\ UNCHANGED mapping_type
       \/ \E t \in Field(16, MappingTypeField) :
            /\ Consume(<<16>>)
            /\ mapping_type' = t
            /\ IF t # 0
               THEN Fail("InvalidMappingType", <<t>>)
               ELSE pc' = "submaps_flag" /\ UNCHANGED outcome
    /\ UNCHANGED <<MappingRest, submaps, coupling_steps, magnitude, angle, mux,
                   submaps_vec>>

\* let flag: bool = reader.read::<u8>(1)? == 1; without the flag submaps is 1
ReadSubmapsFlag ==
    /\ pc = "submaps_flag"
    /\ \/ Eof(1) /\ UNCHANGED submaps
       \/ \E flag \in Field(1, {0, 1}) :
            /\ Consume(<<1>>)
            /\ IF flag = 1
               THEN pc' = "submaps" /\ UNCHANGED submaps
               ELSE pc' = "coupling_flag" /\ submaps' = 1
            /\ UNCHANGED outcome
    /\ UNCHANGED <<MappingRest, mapping_type, coupling_steps, magnitude, angle,
                   mux, submaps_vec>>

\* reader.read::<u8>(4)? + 1
ReadSubmaps ==
    /\ pc = "submaps"
    /\ \/ Eof(4) /\ UNCHANGED submaps
       \/ \E s \in Field(4, SubmapsField) :
            /\ Consume(<<4>>)
            /\ submaps' = s + 1
            /\ pc' = "coupling_flag"
            /\ UNCHANGED outcome
    /\ UNCHANGED <<MappingRest, mapping_type, coupling_steps, magnitude, angle,
                   mux, submaps_vec>>

\* the flag of the polar channel mapping; without it coupling_steps is 0
ReadCouplingFlag ==
    /\ pc = "coupling_flag"
    /\ \/ Eof(1) /\ UNCHANGED coupling_steps
       \/ \E flag \in Field(1, {0, 1}) :
            /\ Consume(<<1>>)
            /\ IF flag = 1
               THEN pc' = "coupling_steps" /\ UNCHANGED coupling_steps
               ELSE pc' = "coupling" /\ coupling_steps' = 0
            /\ UNCHANGED outcome
    /\ UNCHANGED <<MappingRest, mapping_type, submaps, magnitude, angle, mux,
                   submaps_vec>>

\* let coupling_steps = reader.read::<u8>(8)? + 1, an addition of u8
ReadCouplingSteps ==
    /\ pc = "coupling_steps"
    /\ \/ Eof(8) /\ UNCHANGED coupling_steps
       \/ \E s \in Field(8, CouplingStepsField) :
            /\ Consume(<<8>>)
            /\ IF s + 1 > U8Max /\ overflow_checks
               THEN Panic("attempt to add with overflow") /\ UNCHANGED coupling_steps
               ELSE /\ coupling_steps' = (s + 1) % (U8Max + 1)
                    /\ pc' = "coupling"
                    /\ UNCHANGED outcome
    /\ UNCHANGED <<MappingRest, mapping_type, submaps, magnitude, angle, mux,
                   submaps_vec>>

\* util::ilog(audio_channels as i32 - 1), the width of m and of a
coupling_bits == ilog(u32(audio_channels - 1))

\* one iteration of `for _ in 0..coupling_steps`
ReadCoupling ==
    /\ pc = "coupling"
    /\ Len(magnitude) < coupling_steps
    /\ LET m_bits == coupling_bits
           a_bits == coupling_bits
       IN  \/ Eof(m_bits) /\ UNCHANGED <<magnitude, angle>>
           \/ /\ CanRead(m_bits)
              /\ CanEofAt(pos + m_bits, a_bits)
              /\ Fail("IOError", <<>>)
              /\ unexpected_eof' = a_bits
              /\ pos' = pos + m_bits
              /\ trace' = Append(trace, m_bits)
              /\ UNCHANGED <<magnitude, angle>>
           \/ \E m \in FieldAt(0, m_bits, 0 .. Pow2(m_bits) - 1),
                 a \in FieldAt(m_bits, a_bits, 0 .. Pow2(a_bits) - 1) :
                /\ Consume(<<m_bits, a_bits>>)
                /\ IF m = a
                   THEN /\ Fail("PolarAngEqualsMag", <<m, a>>)
                        /\ UNCHANGED <<magnitude, angle>>
                   ELSE IF m >= audio_channels
                   THEN /\ Fail("PolarMagInvalid", <<m>>)
                        /\ UNCHANGED <<magnitude, angle>>
                   ELSE IF a >= audio_channels
                   THEN /\ Fail("PolarAngInvalid", <<a>>)
                        /\ UNCHANGED <<magnitude, angle>>
                   ELSE /\ magnitude' = Append(magnitude, m)
                        /\ angle' = Append(angle, a)
                        /\ UNCHANGED <<pc, outcome>>
    /\ UNCHANGED <<MappingRest, mapping_type, submaps, coupling_steps, mux,
                   submaps_vec>>

\* let reserved: u8 = reader.read(2)?, then the mux of a single submap:
\* vec![0; audio_channels as usize]
ReadMappingReserved ==
    /\ pc = "coupling"
    /\ Len(magnitude) = coupling_steps
    /\ \/ Eof(2) /\ UNCHANGED mux
       \/ \E r \in Field(2, MappingReservedField) :
            /\ Consume(<<2>>)
            /\ IF r # 0
               THEN Fail("Reserved", <<r>>) /\ UNCHANGED mux
               ELSE /\ IF submaps > 1
                       THEN pc' = "mux" /\ UNCHANGED mux
                       ELSE /\ pc' = "submap"
                            /\ mux' = [i \in 1 .. audio_channels |-> 0]
                    /\ UNCHANGED outcome
    /\ UNCHANGED <<MappingRest, mapping_type, submaps, coupling_steps,
                   magnitude, angle, submaps_vec>>

\* the test of a mux value against the number of submaps
mux_invalid(value, n) == value >= n

\* one element of (0..audio_channels).map(..): a mux value of 4 bits
ReadMux ==
    /\ pc = "mux"
    /\ Len(mux) < audio_channels
    /\ \/ Eof(4) /\ UNCHANGED mux
       \/ \E value \in Field(4, MuxField) :
            /\ Consume(<<4>>)
            /\ IF mux_invalid(value, submaps)
               THEN Fail("MuxInvalid", <<value>>) /\ UNCHANGED mux
               ELSE /\ mux' = Append(mux, value)
                    /\ pc' = IF Len(mux) + 1 = audio_channels
                             THEN "submap" ELSE "mux"
                    /\ UNCHANGED outcome
    /\ UNCHANGED <<MappingRest, mapping_type, submaps, coupling_steps,
                   magnitude, angle, submaps_vec>>

\* Submap::decode for one element of (0..submaps).map(..); the Mapping is
\* returned after the last one
ReadSubmap ==
    /\ pc = "submap"
    /\ Len(submaps_vec) < submaps
    /\ \/ Eof(24) /\ UNCHANGED submaps_vec
       \/ \E f \in FieldAt(8, 8, SubmapField), r \in FieldAt(16, 8, SubmapField) :
            /\ Consume(<<8, 8, 8>>)
            /\ submaps_vec' = Append(submaps_vec, [floor |-> f, residue |-> r])
            /\ IF Len(submaps_vec) + 1 = submaps
               THEN pc' = "done" /\ result' = "Ok" /\ UNCHANGED <<err, errval>>
               ELSE UNCHANGED <<pc, outcome>>
    /\ UNCHANGED <<MappingRest, mapping_type, submaps, coupling_steps,
                   magnitude, angle, mux>>

MappingStep ==
    \/ ReadMappingType
    \/ ReadSubmapsFlag
    \/ ReadSubmaps
    \/ ReadCouplingFlag
    \/ ReadCouplingSteps
    \/ ReadCoupling
    \/ ReadMappingReserved
    \/ ReadMux
    \/ ReadSubmap

(* -------------------- TimeDomainTransform::decode ---------------------- *)
\* the payloads of the test of time_domain.rs are among these
TimeDomainBytes == {0, 1, 2, 255}

TimeDomainInputs ==
    UNION {[1 .. n -> TimeDomainBytes] : n \in 0 .. MaxTimeDomainLen}

\* let reserved = reader.read(16)?; a value other than 0 is an error
ReadReserved ==
    /\ pc = "time_domain"
    /\ \/ Eof(16) /\ UNCHANGED reserved
       \/ \E r \in Field(16, {0, 513}) :
            /\ Consume(<<16>>)
            /\ reserved' = r
            /\ IF r # 0
               THEN Fail("Reserved", <<r>>)
               ELSE pc' = "done" /\ result' = "Ok" /\ UNCHANGED <<err, errval>>
    /\ UNCHANGED <<config, header, lengths, lookup, huffman_tree, setup, input,
                   floor_state, mapping_state, util_state, residue_state>>

TimeDomainStep == ReadReserved

(* --------------------------- Residue::decode --------------------------- *)
ResidueTypeField == {0, 1, 2, 3, 65535}

BeginField == {0}

EndField == {16777215}

PartitionSizeField == {16777215}

\* a residue of type 0 has 1, 2 or 64 classifications
ClassificationsField == IF residue_type = 0 THEN {0, 1, 63} ELSE {0}

ClassbookField == {255}

\* the fields of cascade element i: the first MaxFreeCascade elements take
\* several values, the others are 0
LowBitsField(i) == IF i <= MaxFreeCascade THEN {0, 5, 7} ELSE {0}

BitflagField(i) == IF i <= MaxFreeCascade THEN {0, 1} ELSE {0}

HighBitsField(i) == IF i = 1 THEN {0, 16, 31} ELSE {31}

\* the book number stored first in row i of books
ResidueBookField(i) == IF i = 1 THEN {0, U8Max} ELSE {U8Max}

\* what Residue::decode leaves alone
ResidueRest ==
    <<config, header, lengths, lookup, huffman_tree, setup, input,
      floor_state, mapping_state, reserved, util_state>>

\* the ? on a read of n bits that hits the end of the payload after reads of
\* the given widths went well
EofAfter(widths, n) ==
    /\ CanRead(SumSeq(widths))
    /\ CanEofAt(pos + SumSeq(widths), n)
    /\ Fail("IOError", <<>>)
    /\ unexpected_eof' = n
    /\ pos' = pos + SumSeq(widths)
    /\ trace' = trace \o widths

\* let residue_type = reader.read::<u16>(16)?; only 0, 1 and 2 go on
ReadResidueType ==
    /\ pc = "residue_type"
    /\ \/ Eof(16) /\ UNCHANGED residue_type
       \/ \E t \in ResidueTypeField :
            /\ Consume(<<16>>)
            /\ residue_type' = t
            /\ IF ~(t \in 0 .. 2)
               THEN Fail("InvalidResidueType", <<t>>)
               ELSE pc' = "residue_header" /\ UNCHANGED outcome
    /\ UNCHANGED <<ResidueRest, begin, end, partition_size, classifications,
                   classbook, cascade, books, low_bits, high_bits>>

\* the widths of begin, end, partition_size, classifications and classbook
ResidueHeaderWidths == <<24, 24, 24, 6, 8>>

\* begin, end, partition_size (the field + 1), classifications (the field
\* + 1, in u8) and classbook
ReadResidueHeader ==
    /\ pc = "residue_header"
    /\ \/ /\ \E k \in 0 .. 4 :
               EofAfter(SubSeq(ResidueHeaderWidths, 1, k), ResidueHeaderWidths[k + 1])
          /\ UNCHANGED <<begin, end, partition_size, classifications, classbook>>
       \/ \E b \in BeginField, e \in EndField, p \in PartitionSizeField,
             c \in ClassificationsField, cb \in ClassbookField :
            /\ Consume(ResidueHeaderWidths)
            /\ begin' = b
            /\ end' = e
            /\ partition_size' = p + 1
            /\ classbook' = cb
            /\ IF c + 1 > U8Max /\ overflow_checks
               THEN Panic("attempt to add with overflow") /\ UNCHANGED classifications
               ELSE /\ classifications' = (c + 1) % (U8Max + 1)
                    /\ pc' = "cascade"
                    /\ UNCHANGED outcome
    /\ UNCHANGED <<ResidueRest, residue_type, cascade, books, low_bits, high_bits>>

\* high_bits * 8 + low_bits, before it is cut to a u8
cascade_elem(high, low) == high * 8 + low

\* one call of the closure of cascade: low_bits, bitflag and, with the flag
\* set, high_bits; the element is high_bits * 8 + low_bits in u8
ReadCascade ==
    /\ pc = "cascade"
    /\ Len(cascade) < classifications
    /\ LET i == Len(cascade) + 1
       IN  \/ /\ \/ Eof(3)
                 \/ EofAfter(<<3>>, 1)
                 \/ /\ 1 \in BitflagField(i)
                    /\ EofAfter(<<3, 1>>, 5)
              /\ UNCHANGED <<cascade, low_bits, high_bits>>
           \/ \E low \in LowBitsField(i), bitflag \in BitflagField(i) :
                \E high \in IF bitflag = 1 THEN HighBitsField(i) ELSE {0} :
                   /\ Consume(IF bitflag = 1 THEN <<3, 1, 5>> ELSE <<3, 1>>)
                   /\ low_bits' = low
                   /\ high_bits' = high
                   /\ IF cascade_elem(high, low) > U8Max /\ overflow_checks
                      THEN /\ Panic(IF high * 8 > U8Max
                                    THEN "attempt to multiply with overflow"
                                    ELSE "attempt to add with overflow")
                           /\ UNCHANGED cascade
                      ELSE /\ cascade' =
                                Append(cascade, cascade_elem(high, low) % (U8Max + 1))
                           /\ UNCHANGED <<pc, outcome>>
    /\ UNCHANGED <<ResidueRest, residue_type, begin, end, partition_size,
                   classifications, classbook, books>>

\* the cascade is complete: the books come next
FinishCascade ==
    /\ pc = "cascade"
    /\ Len(cascade) = classifications
    /\ pc' = "books"
    /\ UNCHANGED <<config, reader, header, lengths, lookup, huffman_tree, outcome,
                   setup, parts>>

\* cascade_elem & (1 << 7 - j) != 0
has_book_from_top(elem, j) == (elem \div Pow2(7 - j)) % 2 # 0

\* cascade_elem & (1 << j) != 0
has_book(elem, j) == (elem \div Pow2(j)) % 2 # 0

\* the bits of a cascade element that are set: the books that are read
BooksOf(elem) == {j \in 0 .. 7 : has_book(elem, j)}

\* one row of books: for j in 0..8 a book number of 8 bits where bit j of
\* the cascade element is set, None elsewhere
ReadResidueBooks ==
    /\ pc = "books"
    /\ Len(books) < Len(cascade)
    /\ LET i == Len(books) + 1
           n == Cardinality(BooksOf(cascade[i]))
       IN  \/ /\ \E k \in 0 .. n - 1 : EofAfter([r \in 1 .. k |-> 8], 8)
              /\ UNCHANGED books
           \/ \E first \in ResidueBookField(i) :
                /\ Consume([r \in 1 .. n |-> 8])
                /\ books' =
                     Append(books,
                            [j1 \in 1 .. 8 |->
                                IF ~has_book(cascade[i], j1 - 1)
                                THEN None
                                ELSE IF \A j \in BooksOf(cascade[i]) : j1 - 1 <= j
                                     THEN first
                                     ELSE U8Max - j1])
                /\ UNCHANGED <<pc, outcome>>
    /\ UNCHANGED <<ResidueRest, residue_type, begin, end, partition_size,
                   classifications, classbook, cascade, low_bits, high_bits>>

\* Ok(Self { .. })
FinishResidue ==
    /\ pc = "books"
    /\ Len(books) = Len(cascade)
    /\ pc' = "done"
    /\ result' = "Ok"
    /\ UNCHANGED <<config, reader, header, lengths, lookup, huffman_tree, err,
                   errval, setup, parts>>

ResidueStep ==
    \/ ReadResidueType
    \/ ReadResidueHeader
    \/ ReadCascade
    \/ FinishCascade
    \/ ReadResidueBooks
    \/ FinishResidue

(* --------------- Floor, Mapping and TimeDomainTransform ---------------- *)
\* Floor::decode of floor.rs on a fresh reader; the input class "bytes"
\* holds the payloads of test_floor_decode
InitFloorDecode ==
    /\ entry = "Floor::decode"
    /\ unit = "floor.rs"
    /\ class \in {"floor", "floor_long", "bytes"}
    /\ input \in (IF class = "bytes"
                  THEN {TestFloorInput, TestFloorInputTooLong, <<>>}
                  ELSE {<<>>})
    /\ overflow_checks = TRUE
    /\ pc = "floor_type"
    /\ sparse = "None"
    /\ InitDecoder
    /\ InitFloor
    /\ stream_audio_channels = 1
    /\ InitMapping
    /\ reserved = None
    /\ InitUtil
    /\ InitResidue

\* Mapping::decode of mapping.rs on a fresh reader, in a stream whose ID
\* header has stream_audio_channels channels
InitMappingDecode ==
    /\ entry = "Mapping::decode"
    /\ unit = "mapping.rs"
    /\ class = "mapping"
    /\ input = <<>>
    /\ overflow_checks \in BOOLEAN
    /\ pc = "mapping_type"
    /\ sparse = "None"
    /\ InitDecoder
    /\ InitFloor
    /\ stream_audio_channels \in 1 .. MaxChannels
    /\ InitMapping
    /\ reserved = None
    /\ InitUtil
    /\ InitResidue

\* TimeDomainTransform::decode of time_domain.rs on a fresh reader over the
\* bytes of input
InitTimeDomainDecode ==
    /\ entry = "TimeDomainTransform::decode"
    /\ unit = "time_domain.rs"
    /\ class = "bytes"
    /\ input \in TimeDomainInputs
    /\ overflow_checks = TRUE
    /\ pc = "time_domain"
    /\ sparse = "None"
    /\ InitDecoder
    /\ InitFloor
    /\ stream_audio_channels = 1
    /\ InitMapping
    /\ reserved = None
    /\ InitUtil
    /\ InitResidue

\* Residue::decode of residue.rs on a fresh reader
InitResidueDecode ==
    /\ entry = "Residue::decode"
    /\ unit = "residue.rs"
    /\ class = "residue"
    /\ input = <<>>
    /\ overflow_checks \in BOOLEAN
    /\ pc = "residue_type"
    /\ sparse = "None"
    /\ InitDecoder
    /\ InitFloor
    /\ stream_audio_channels = 1
    /\ InitMapping
    /\ reserved = None
    /\ InitUtil
    /\ InitResidue

InitPartsDecode ==
    \/ InitFloorDecode
    \/ InitMappingDecode
    \/ InitTimeDomainDecode
    \/ InitResidueDecode

NextParts ==
    \/ FloorStep
    \/ MappingStep
    \/ TimeDomainStep
    \/ ResidueStep

SpecParts == InitPartsDecode /\ [][NextParts]_vars

\* the three decoders whose tests run them into the end of the data:
\* Codebook::decode, Floor::decode and TimeDomainTransform::decode
InitDecoders ==
    \/ Init
    \/ InitFloorDecode
    \/ InitTimeDomainDecode

NextDecoders ==
    \/ DecodeStep
    \/ FloorStep
    \/ TimeDomainStep

SpecDecoders == InitDecoders /\ [][NextDecoders]_vars

(* ------------------- util.rs: lookup1_values, render_line --------------- *)
\* calls of lookup1_values beyond the small ones: of test_lookup1_values,
\* and with powers that pass 2^32
Lookup1Cases ==
    {<<0, 0>>, <<0, 1>>, <<0, 2>>, <<0, 10>>, <<81, 4>>, <<271, 4>>,
     <<625, 4>>, <<81, 2>>, <<168, 2>>, <<169, 2>>, <<224, 2>>, <<225, 2>>,
     <<288, 2>>, <<289, 2>>,
     <<0, 32>>, <<1, 32>>, <<2097152, 21>>, <<16777215, 24>>, <<65536, 16>>}

Lookup1Args ==
    ((0 .. MaxUtilEntries) \X (0 .. MaxUtilDimensions)) \cup Lookup1Cases

\* vec![0; n], the buffer of the tests before the call
Fill == 0

\* the calls of test_render_line, test_render_line_invalid1 and
\* test_render_line_invalid2: x0, y0, x1, y1 and v.len()
RenderLineTests ==
    {<<0, 0, 5, 0, 5>>, <<0, 0, 5, 5, 5>>, <<0, 166, 12, 172, 12>>,
     <<12, 172, 16, 162, 16>>, <<0, 0, 100, 100, 0>>, <<0, 0, -12, 0, 12>>}

\* a steep rising and a steep falling line
RenderLineSteep == {<<0, 0, 4, Pow2(30), 4>>, <<0, Pow2(30), 4, 0, 4>>}

RenderLineArgs ==
    RenderLineTests
    \cup RenderLineSteep
    \cup ((-1 .. MaxBuffer + 1) \X (1 .. MaxY) \X (-1 .. MaxBuffer + 1)
              \X (1 .. MaxY) \X (0 .. MaxBuffer))

\* the slice of test_floor_decode's x_list, of test_low_neighbor and of
\* test_high_neighbor
NeighborTestList ==
    <<0, 128, 12, 46, 4, 8, 16, 23, 33, 70, 2, 6, 10, 14, 19, 28, 39, 58, 90>>

\* the calls of the tests of low_neighbor and high_neighbor: v and x
NeighborTests ==
    {<<<<0, 1, 2>>, 2>>, <<NeighborTestList, 2>>, <<NeighborTestList, 18>>,
     <<<<>>, 0>>, <<<<0>>, 0>>, <<<<0, 1, 2>>, 5>>, <<<<2, 1, 0>>, 2>>}

NeighborArgs ==
    NeighborTests
    \cup UNION {[1 .. n -> 0 .. 2] \X (0 .. n + 1) : n \in 0 .. MaxNeighborLen}

\* the halves ilog is called with: 0, 0xFFFF, the powers of two and their
\* two neighbours
IlogHalves ==
    {0, 65535} \cup {Pow2(j) + d : j \in 0 .. 15, d \in {0 - 1, 0, 1}}

\* the arguments of ilog, as <<high half, low half>>: the numbers of
\* test_ilog, the powers of two up to 2^31 with their neighbours, u32::MAX
IlogArgs ==
    {u32(x) : x \in 0 .. MaxUtilEntries} \cup (IlogHalves \X IlogHalves)

\* entries (24 bits) and dimensions (16 bits) of a table of lookup type 2:
\* the small ones, and the ends of the two fields with the pairs around the
\* product 2^32
ProductArgs ==
    ((0 .. MaxUtilEntries) \X (0 .. MaxUtilDimensions))
    \cup ({0, 1, 65536, 65537, 65538, 131072, 16777215}
          \X {0, 1, 2, 32768, 65535})

\* a call of a function of util.rs with its arguments
InitUtilCall ==
    /\ unit = "util.rs"
    /\ class = "args"
    /\ input = <<>>
    /\ overflow_checks \in BOOLEAN
    /\ pc = "call"
    /\ pos = 0
    /\ trace = <<>>
    /\ unexpected_eof = 0
    /\ ordered = FALSE
    /\ sparse = "None"
    /\ codeword_lengths = <<>>
    /\ current_entry = 0
    /\ current_length = 0
    /\ table = EmptyTable
    /\ vector_lookup_table = <<>>
    /\ huffman_tree = NewTree
    /\ result = "running"
    /\ err = ""
    /\ errval = <<>>
    /\ vorbis_codebook_count = 0
    /\ codebooks = <<>>
    /\ InitFloor
    /\ stream_audio_channels = 1
    /\ InitMapping
    /\ reserved = None
    /\ InitResidue
    /\ retval = 0
    /\ lookup_values = <<0, 0>>
    /\ \/ /\ entry = "lookup_values"
          /\ \/ /\ lookup_type = 1
                /\ \E a \in Lookup1Args : entries = a[1] /\ dimensions = a[2]
             \/ /\ lookup_type = 2
                /\ \E a \in ProductArgs : entries = a[1] /\ dimensions = a[2]
          /\ x0 = 0 /\ y0 = 0 /\ x1 = 0 /\ y1 = 0
          /\ buffer = <<>>
       \/ /\ entry = "lookup1_values"
          /\ \E a \in Lookup1Args : entries = a[1] /\ dimensions = a[2]
          /\ x0 = 0 /\ y0 = 0 /\ x1 = 0 /\ y1 = 0
          /\ buffer = <<>>
       \/ /\ entry = "render_line"
          /\ entries = 0
          /\ dimensions = 0
          /\ \E a \in RenderLineArgs :
               /\ x0 = a[1] /\ y0 = a[2] /\ x1 = a[3] /\ y1 = a[4]
               /\ buffer = [i \in 1 .. a[5] |-> Fill]
       \/ /\ entry = "ilog"
          /\ entries = 0
          /\ dimensions = 0
          /\ \E x \in IlogArgs : x0 = x[1] /\ y0 = x[2]
          /\ x1 = 0 /\ y1 = 0
          /\ buffer = <<>>
       \/ /\ entry \in {"low_neighbor", "high_neighbor"}
          /\ entries = 0
          /\ dimensions = 0
          /\ \E a \in NeighborArgs : buffer = a[1] /\ x0 = a[2]
          /\ y0 = 0 /\ x1 = 0 /\ y1 = 0
    /\ IF entry = "lookup_values" THEN lookup_type \in {1, 2} ELSE lookup_type = None

UtilRest ==
    <<config, reader, header, lengths, lookup, huffman_tree, setup, input,
      floor_state, mapping_state, reserved, residue_state, x0, y0, x1, y1>>

\* the let of lookup_values in Codebook::decode for the entries, dimensions
\* and lookup_type at hand, to its value, its panic or the loop of
\* lookup1_values that never ends
CallLookupValues ==
    /\ pc = "call"
    /\ entry = "lookup_values"
    /\ LET lv == lookup_values_for(lookup_type, entries, dimensions)
       IN  IF lv.kind = "overflow"
           THEN /\ IF overflow_checks
                   THEN Panic("attempt to add with overflow")
                   ELSE pc' = "lookup1_values" /\ UNCHANGED outcome
                /\ UNCHANGED lookup_values
           ELSE IF lv.kind = "mul_overflow" /\ overflow_checks
           THEN Panic("attempt to multiply with overflow") /\ UNCHANGED lookup_values
           ELSE /\ pc' = "done"
                /\ result' = "Ok"
                /\ lookup_values' = lv.value
                /\ UNCHANGED <<err, errval>>
    /\ UNCHANGED <<UtilRest, retval, buffer>>

\* lookup1_values(entries, dimensions), to its return, its panic or, in a
\* build without overflow checks, the loop that never ends
CallLookup1Values ==
    /\ pc = "call"
    /\ entry = "lookup1_values"
    /\ LET res == lookup1_values(entries, dimensions)
       IN  IF res.kind = "overflow"
           THEN /\ IF overflow_checks
                   THEN Panic("attempt to add with overflow")
                   ELSE pc' = "lookup1_values" /\ UNCHANGED outcome
                /\ UNCHANGED retval
           ELSE IF res.kind = "mul_overflow" /\ overflow_checks
           THEN Panic("attempt to multiply with overflow") /\ UNCHANGED retval
           ELSE /\ pc' = "done"
                /\ result' = "Ok"
                /\ retval' = res.value
                /\ UNCHANGED <<err, errval>>
    /\ UNCHANGED <<UtilRest, buffer, lookup_values>>

\* render_line(x0, y0, x1, y1, &mut buffer), to its return or its panic
CallRenderLine ==
    /\ pc = "call"
    /\ entry = "render_line"
    /\ LET res == render_line(x0, y0, x1, y1, buffer)
       IN  IF res.panic # ""
           THEN Panic(res.panic) /\ UNCHANGED buffer
           ELSE /\ pc' = "done"
                /\ result' = "Ok"
                /\ buffer' = res.v
                /\ UNCHANGED <<err, errval>>
    /\ UNCHANGED <<UtilRest, retval, lookup_values>>

\* low_neighbor(&buffer, x0) or high_neighbor(&buffer, x0), to its return
\* or its panic
CallNeighbor ==
    /\ pc = "call"
    /\ entry \in {"low_neighbor", "high_neighbor"}
    /\ LET res == IF entry = "low_neighbor"
                  THEN low_neighbor(buffer, x0)
                  ELSE high_neighbor(buffer, x0)
       IN  IF res.panic # ""
           THEN Panic(res.panic) /\ UNCHANGED retval
           ELSE /\ pc' = "done"
                /\ result' = "Ok"
                /\ retval' = res.n
                /\ UNCHANGED <<err, errval>>
    /\ UNCHANGED <<UtilRest, buffer, lookup_values>>

\* ilog(x) for the u32 x of halves x0 and y0
CallIlog ==
    /\ pc = "call"
    /\ entry = "ilog"
    /\ pc' = "done"
    /\ result' = "Ok"
    /\ retval' = ilog(<<x0, y0>>)
    /\ UNCHANGED <<err, errval, UtilRest, buffer, lookup_values>>

NextUtil ==
    \/ CallLookup1Values
    \/ CallRenderLine
    \/ CallNeighbor
    \/ CallIlog
    \/ CallLookupValues

SpecUtil == InitUtilCall /\ [][NextUtil]_vars

(* ---------------- HuffmanTree::add_node, called in a row --------------- *)
\* the lengths of test_add_node
TestLengths == <<2, 4, 4, 4, 4, 2, 3, 3>>

\* the lengths the next add_node call can be given: the next length of
\* test_add_node in the class "test_add_node", any length otherwise
NextLengths ==
    IF class = "test_add_node"
    THEN {TestLengths[i] : i \in {Len(codeword_lengths) + 1} \cap DOMAIN TestLengths}
    ELSE IF Len(codeword_lengths) < MaxSymbols THEN 0 .. MaxCodeLength ELSE {}

\* tree.add_node(length, i) for the next symbol i, as in test_add_node;
\* current_length keeps the length the call was given
AddNode ==
    /\ pc = "insert"
    /\ \E length \in NextLengths :
         LET res == add_node(huffman_tree, length, Len(codeword_lengths))
         IN  /\ huffman_tree' = res.tree
             /\ current_length' = length
             /\ IF res.panic
                THEN Panic(res.msg) /\ UNCHANGED codeword_lengths
                ELSE /\ codeword_lengths' = Append(codeword_lengths, length)
                     /\ UNCHANGED <<pc, outcome>>
    /\ UNCHANGED <<config, parts, reader, header, sparse, current_entry,
                   lookup, setup>>

InitHuffman ==
    /\ entry = "HuffmanTree::add_node"
    /\ unit = "huffman.rs"
    /\ class \in {"lengths", "test_add_node"}
    /\ overflow_checks = TRUE
    /\ pc = "insert"
    /\ sparse = "None"
    /\ InitLocals

NextHuffman == AddNode

SpecHuffman == InitHuffman /\ [][NextHuffman]_vars

(* ------------------------------ properties ----------------------------- *)
Finished == pc = "done"

DecodeErrors == {"InvalidSyncPattern", "TooManyEntries", "InvalidLookupType", "IOError"}

\* C1: SetupHeader::from_bytes, once the codebook list of a payload is
\* decoded without a failure, goes on through the other five lists and the
\* framing bit and returns a SetupHeader: it ends with an Ok result.
C1_ReturnsSetupHeader ==
    (/\ entry = "SetupHeader::from_bytes"
     /\ Finished
     /\ vorbis_codebook_count >= 1
     /\ Len(codebooks) = vorbis_codebook_count)
        => result = "Ok"

\* C2: when a sub-decoder fails while SetupHeader::from_bytes runs (the end
\* of data while reading a count included), from_bytes returns that failure
\* as an error value.
C2_FailureIsReturned ==
    (/\ entry = "SetupHeader::from_bytes"
     /\ Finished
     /\ err \in DecodeErrors)
        => result = "Err"

\* C3: Codebook::decode ends on every payload with a Codebook or with one of
\* InvalidSyncPattern, TooManyEntries, InvalidLookupType and end-of-data; it
\* never aborts the process.
C3_NeverAborts ==
    (entry = "Codebook::decode" /\ Finished)
        => \/ result = "Ok"
           \/ result = "Err" /\ err \in DecodeErrors

\* C4: every Codebook returned by Codebook::decode has exactly `entries`
\* codeword lengths, and every length that is present is in 1..32.
C4_LengthsInRange ==
    (entry = "Codebook::decode" /\ result = "Ok")
        => /\ Len(codeword_lengths) = entries
           /\ \A i \in 1 .. Len(codeword_lengths) :
                codeword_lengths[i] # None
                    => 1 <= codeword_lengths[i] /\ codeword_lengths[i] <= 32

\* every node without a symbol has both of its child slots in use
ExactlyFull(t) ==
    \A p \in DOMAIN t : t[p] = None => HasChild(t, p, 0) /\ HasChild(t, p, 1)

\* C5: the Huffman tree of every Codebook returned by Codebook::decode is
\* exactly full: every length found a slot and no node is left with an
\* unused child slot.
C5_TreeExactlyFull ==
    (entry = "Codebook::decode" /\ result = "Ok")
        => /\ build_tree(codeword_lengths, 1, NewTree).panic = FALSE
           /\ ExactlyFull(huffman_tree)

(* canonical codewords, defined without the tree *)
IsPrefix(a, b) == Len(a) <= Len(b) /\ SubSeq(b, 1, Len(a)) = a

RECURSIVE BitValue(_)
BitValue(c) ==
    IF c = <<>> THEN 0 ELSE 2 * BitValue(SubSeq(c, 1, Len(c) - 1)) + c[Len(c)]

\* the codewords of length n that are not a prefix of, and have no prefix in, cs
FreeCodewords(cs, n) ==
    {c \in [1 .. n -> {0, 1}] :
        \A i \in 1 .. Len(cs) : ~IsPrefix(cs[i], c) /\ ~IsPrefix(c, cs[i])}

\* the canonical codewords of a list of lengths; <<2>> where none exists
RECURSIVE Canonical(_)
Canonical(ls) ==
    IF ls = <<>>
    THEN <<>>
    ELSE LET cs == Canonical(SubSeq(ls, 1, Len(ls) - 1))
             free == FreeCodewords(cs, ls[Len(ls)])
         IN  Append(cs, IF free = {}
                        THEN <<2>>
                        ELSE CHOOSE c \in free :
                                \A d \in free : BitValue(c) <= BitValue(d))

\* the paths of the nodes that carry the symbol
PathsOf(t, symbol) == {p \in DOMAIN t : t[p] = symbol}

TestCodewords ==
    << <<0, 0>>, <<0, 1, 0, 0>>, <<0, 1, 0, 1>>, <<0, 1, 1, 0>>, <<0, 1, 1, 1>>,
       <<1, 0>>, <<1, 1, 0>>, <<1, 1, 1>> >>

\* C6: after add_node calls in ascending symbol order that all succeeded,
\* every symbol sits at exactly one node, whose path from the root has
\* `length` steps and is the canonical codeword of the symbol; no codeword
\* is a prefix of another; the lengths of test_add_node give its codewords.
C6_CanonicalCodewords ==
    (entry = "HuffmanTree::add_node" /\ result # "panic")
        => LET canon == Canonical(codeword_lengths)
               paths == [i \in 1 .. Len(codeword_lengths) |->
                            PathsOf(huffman_tree, i - 1)]
           IN  /\ \A i \in 1 .. Len(codeword_lengths) :
                    /\ paths[i] = {canon[i]}
                    /\ Len(canon[i]) = codeword_lengths[i]
               /\ \A i, j \in 1 .. Len(codeword_lengths) :
                    \A p \in paths[i], q \in paths[j] :
                        i # j => ~IsPrefix(p, q)
               /\ codeword_lengths = TestLengths
                    => \A i \in 1 .. 8 : paths[i] = {TestCodewords[i]}

C6_Witness ==
    /\ entry = "HuffmanTree::add_node"
    /\ result # "panic"
    /\ codeword_lengths = TestLengths
    /\ huffman_tree[<<1, 1, 1>>] = 7

\* the number of entries of ls whose length is below l
RECURSIVE CountBelow(_, _)
CountBelow(ls, l) ==
    IF ls = <<>> THEN 0
    ELSE (IF Head(ls) < l THEN 1 ELSE 0) + CountBelow(Tail(ls), l)

\* widths of the fields in front of the codeword lengths of the ordered
\* branch: sync pattern, dimensions, entries, ordered
HeaderWidths == <<8, 8, 8, 16, 24, 1>>

\* C7: in ordered mode the initial length is read as a 5-bit field plus 1;
\* then each count is read with ilog(entries - current_entry) bits, the
\* current length is given to that many symbols and goes up by 1 after each
\* count.
C7_OrderedReads ==
    (entry = "Codebook::decode" /\ pc = "ordered_loop")
        => LET counts == Len(trace) - 7
               first == current_length - counts
           IN  /\ trace[7] = 5
               /\ 1 <= first /\ first <= 32
               /\ \A k \in 1 .. counts :
                    trace[7 + k] =
                        ilog(u32(entries - CountBelow(codeword_lengths, first + k - 1)))
               /\ \A i \in 1 .. Len(codeword_lengths) :
                    /\ first <= codeword_lengths[i]
                    /\ codeword_lengths[i] < current_length
               /\ \A i \in 1 .. Len(codeword_lengths) - 1 :
                    codeword_lengths[i] <= codeword_lengths[i + 1]
               /\ current_entry = Len(codeword_lengths)

\* C8: in ordered mode Codebook::decode returns TooManyEntries, carrying the
\* accumulated count, exactly when the counts read sum to more than
\* `entries`; when the sum lands on `entries` no error is raised and the
\* decode goes on to the lookup type.
C8_TooManyEntries ==
    entry = "Codebook::decode"
        => /\ err = "TooManyEntries"
                => /\ result = "Err"
                   /\ ordered
                   /\ current_entry > entries
                   /\ errval = <<current_entry>>
           /\ (ordered /\ Finished /\ current_entry > entries)
                => result = "Err" /\ err = "TooManyEntries"
           /\ (ordered /\ Finished /\ current_entry = entries /\ lookup_type = None)
                => result = "Err" /\ err = "IOError"

\* the fields of the unordered branch up to the last codeword length read
RECURSIVE LengthWidths(_, _)
LengthWidths(sp, ls) ==
    IF ls = <<>> THEN <<>>
    ELSE (IF sp = "Some(true)"
          THEN (IF Head(ls) = None THEN <<1>> ELSE <<1, 5>>)
          ELSE <<5>>) \o LengthWidths(sp, Tail(ls))

UnorderedWidths(sp, ls) == HeaderWidths \o <<1>> \o LengthWidths(sp, ls)

\* C9: in unordered mode Codebook::decode reads one sparse bit and then, for
\* each symbol in ascending order, a 1-bit flag followed by a 5-bit length
\* (+1) when the flag is set and None when it is not (sparse), or always a
\* 5-bit length (+1) (not sparse); sparse is Some(_) exactly when ordered is
\* false.
C9_UnorderedReads ==
    entry = "Codebook::decode"
        => /\ sparse # "None"
                => LET widths == UnorderedWidths(sparse, codeword_lengths)
                   IN  /\ ~ordered
                       /\ Len(trace) >= Len(widths)
                       /\ SubSeq(trace, 1, Len(widths)) = widths
                       /\ pc \in {"entry", "lookup_type"} => trace = widths
                       /\ Len(codeword_lengths) <= entries
                       /\ pc = "entry" => Len(codeword_lengths) < entries
                       /\ pc \in {"lookup_type", "table", "multiplicands", "huffman"}
                            => Len(codeword_lengths) = entries
                       /\ \A i \in 1 .. Len(codeword_lengths) :
                            IF codeword_lengths[i] = None
                            THEN sparse = "Some(true)"
                            ELSE 1 <= codeword_lengths[i] /\ codeword_lengths[i] <= 32
           /\ result = "Ok"
                => /\ (sparse # "None") <=> ~ordered
                   /\ ~ordered => Len(codeword_lengths) = entries
           /\ (~ordered /\ pc \notin {"sync", "header", "sparse", "done"})
                => sparse # "None"

C9_Witness ==
    /\ entry = "Codebook::decode"
    /\ result = "Ok"
    /\ sparse = "Some(true)"
    /\ \E i, j \in 1 .. Len(codeword_lengths) :
          codeword_lengths[i] = None /\ codeword_lengths[j] = 32

\* C10: a returned Codebook has a vector lookup table if and only if its
\* lookup_type is 1 or 2; lookup_type 0 gives no table; every lookup_type
\* from 3 to 15 gives InvalidLookupType carrying that value.
C10_LookupType ==
    entry = "Codebook::decode"
        => /\ result = "Ok"
                => /\ lookup_type \in {0, 1, 2}
                   /\ (vector_lookup_table # <<>>) <=> (lookup_type \in {1, 2})
           /\ lookup_type \in 3 .. 15
                => /\ Finished
                   /\ result = "Err"
                   /\ err = "InvalidLookupType"
                   /\ errval = <<lookup_type>>
                   /\ vector_lookup_table = <<>>
           /\ err = "InvalidLookupType" => lookup_type \in 3 .. 15
           /\ lookup_type = 0 => vector_lookup_table = <<>>

C10_Witness ==
    /\ entry = "Codebook::decode"
    /\ result = "Ok"
    /\ lookup_type = 2
    /\ Len(vector_lookup_table) = 1
    /\ Len(vector_lookup_table[1].multiplicands) >= 1

\* C11: a Floor1 returned by Floor::decode has x_list.len() = 2 + the sum of
\* classes[partition_class_list[i]].dimensions and x_list.len() <= 65; when
\* the total exceeds 65 the decode returns XListTooLong carrying the total
\* (67 for the input of test_floor_decode).
C11_XListLength ==
    entry = "Floor::decode"
        => LET total == 2 + XListValues(partition_class_list, classes)
           IN  /\ (result = "Ok" /\ vorbis_floor_type = 1)
                    => /\ Len(x_list) = total
                       /\ Len(x_list) <= 65
               /\ err = "XListTooLong"
                    => /\ result = "Err"
                       /\ Len(x_list) = total
                       /\ total > 65
                       /\ errval = <<total>>
               /\ (Finished /\ unexpected_eof = 0 /\ pos > 0
                     /\ Len(x_list) = total /\ total > 65)
                    => err = "XListTooLong"
               /\ (Finished /\ input = TestFloorInputTooLong /\ input # <<>>)
                    => err = "XListTooLong" /\ errval = <<67>>

C11_Witness ==
    /\ entry = "Floor::decode"
    /\ result = "Ok"
    /\ vorbis_floor_type = 1
    /\ Len(x_list) = 65

\* the errors Floor::decode returns
FloorErrors == {"InvalidFloorType", "XListTooLong", "IOError"}

\* C12: Floor1 decoding fails when the 5-bit partitions field is 0: no Floor1
\* is produced and the failure is a decode error of the floor decoder.
C12_NoPartitions ==
    (entry = "Floor::decode" /\ Finished /\ vorbis_floor_type = 1
        /\ partitions = 0)
        => result = "Err" /\ err \in FloorErrors

(* ---------------------------- Mapping::decode --------------------------- *)
\* index in trace of the 1-bit flag of the polar channel mapping: the fourth
\* field when the 4-bit submaps field was read, the third otherwise
CouplingFlagAt == IF Len(trace) >= 3 /\ trace[3] = 4 THEN 4 ELSE 3

\* the 8-bit coupling_steps field was read: the coupling flag was set
CouplingInUse ==
    /\ entry = "Mapping::decode"
    /\ Len(trace) >= CouplingFlagAt + 1
    /\ trace[CouplingFlagAt + 1] = 8

PolarErrors == {"PolarAngEqualsMag", "PolarMagInvalid", "PolarAngInvalid"}

\* the widths of the magnitude and angle fields read so far
CouplingWidths ==
    LET first == CouplingFlagAt + 2
        pairs == Len(magnitude) + (IF result = "Err" /\ err \in PolarErrors THEN 1 ELSE 0)
    IN  SubSeq(trace, first, first + 2 * pairs - 1)

\* C13: when the polar-coupling flag is set, Mapping::decode reads for each
\* coupling step a magnitude and an angle of ilog(audio_channels - 1) bits
\* each, audio_channels being the channel count of the stream; it fails if
\* magnitude = angle or either is >= audio_channels, and a Mapping it
\* returns has coupling_steps magnitudes and angles, all of them valid.
C13_Coupling ==
    CouplingInUse =>
        /\ \A i \in DOMAIN CouplingWidths :
             CouplingWidths[i] = ilog(u32(stream_audio_channels - 1))
        /\ Len(magnitude) = Len(angle)
        /\ \A i \in DOMAIN magnitude :
             /\ magnitude[i] # angle[i]
             /\ magnitude[i] < stream_audio_channels
             /\ angle[i] < stream_audio_channels
        /\ (Finished /\ result = "Ok") =>
             /\ Len(magnitude) = coupling_steps
             /\ Len(angle) = coupling_steps
        /\ (Finished /\ result = "Err" /\ err = "PolarAngEqualsMag") =>
             errval[1] = errval[2]

\* C14: every Mapping returned has one mux entry per audio channel, each
\* entry < submaps, submaps in 1..16 and submaps_vec of submaps elements; with
\* submaps > 1 a 4-bit mux value >= submaps fails with MuxInvalid, and with
\* submaps = 1 every mux entry is 0 and no mux bits are read.
C14_Mux ==
    entry = "Mapping::decode" =>
        /\ (Finished /\ result = "Ok") =>
             /\ Len(mux) = stream_audio_channels
             /\ \A i \in DOMAIN mux : mux[i] < submaps
             /\ submaps \in 1 .. 16
             /\ Len(submaps_vec) = submaps
             /\ submaps = 1 =>
                  /\ \A i \in DOMAIN mux : mux[i] = 0
                  /\ \A i \in DOMAIN trace : trace[i] = 4 => i = 3
        /\ (Finished /\ result = "Err" /\ err = "MuxInvalid") =>
             submaps > 1 /\ errval[1] >= submaps /\ errval[1] < 16

(* ---------------------- TimeDomainTransform::decode -------------------- *)
\* C15: TimeDomainTransform::decode reads 16 bits, little-endian: on a
\* payload of at least two bytes b0, b1 it returns reserved = 0 exactly when
\* b0 + 256 * b1 is 0 and otherwise the Reserved error holding that value,
\* 513 for the bytes 1, 2.
C15_Reserved ==
    (entry = "TimeDomainTransform::decode" /\ Finished /\ Len(input) >= 2) =>
        LET value == input[1] + 256 * input[2]
        IN  /\ trace = <<16>>
            /\ pos = 16
            /\ (result = "Ok") = (value = 0)
            /\ result = "Ok" => reserved = 0
            /\ value # 0 =>
                 result = "Err" /\ err = "Reserved" /\ errval = <<value>>

C15_Witness ==
    /\ entry = "TimeDomainTransform::decode"
    /\ Finished
    /\ input = <<1, 2>>
    /\ result = "Err"
    /\ err = "Reserved"
    /\ errval = <<513>>

(* --------------------------- the end of the data ----------------------- *)
\* a read that hit the end of the data ends the decode with IOError, and
\* IOError has no other cause; a decode that consumed nothing ended so
EndOfData ==
    /\ unexpected_eof > 0 =>
         /\ Finished
         /\ result = "Err"
         /\ err = "IOError"
         /\ errval = <<>>
    /\ err = "IOError" => unexpected_eof > 0
    /\ (Finished /\ pos = 0) => err = "IOError"
    /\ (Finished /\ class = "bytes" /\ input = <<>>) =>
         result = "Err" /\ err = "IOError"

\* the reader only moves forward: fields are added to those read, none is
\* taken back, and the position advances by the widths of the new fields
Forward ==
    /\ pos' >= pos
    /\ Len(trace') >= Len(trace)
    /\ SubSeq(trace', 1, Len(trace)) = trace
    /\ pos' = pos + SumSeq(SubSeq(trace', Len(trace) + 1, Len(trace')))

\* C16: in Codebook::decode, Floor::decode and TimeDomainTransform::decode a
\* read that runs into the end of the input after valid fields ends the
\* decode with IOError (UnexpectedEof), never with a record or another
\* error; the empty input gives IOError; bits are only consumed forward.
C16_EndOfData == []EndOfData /\ [][Forward]_vars

C16_Witness ==
    /\ entry = "Floor::decode"
    /\ class = "floor"
    /\ unexpected_eof > 0
    /\ pos > 16
    /\ result = "Err"
    /\ err = "IOError"

(* ------------------------------- util.rs ------------------------------- *)
\* the power b^e of the integers, cut off at 2^30: above every entries that
\* lookup1_values is called with
RECURSIVE Power(_, _)
Power(b, e) ==
    IF e = 0
    THEN 1
    ELSE LET r == Power(b, e - 1)
         IN  IF b = 0 THEN 0
             ELSE IF r > Pow2(30) \div b THEN Pow2(30) ELSE b * r

\* the values the result of lookup1_values is compared with: every n up to
\* entries + 1, or to 2^10 + 1 for the large entries, which are only given
\* with dimensions above 2
Candidates ==
    0 .. (IF entries < Pow2(10) THEN entries ELSE Pow2(10)) + 1

\* n is the largest number with n^dimensions <= entries
IsRoot(n) ==
    /\ Power(n, dimensions) <= entries
    /\ \A k \in Candidates : Power(k, dimensions) <= entries => k <= n

\* C17 as stated: lookup1_values(entries, dimensions) returns the largest n
\* such that (n+1)^dimensions <= entries (here for entries >= 1 and
\* dimensions >= 1 only, and where no power of the loop passed 2^32).
C17_LargestNPlusOne ==
    (/\ entry = "lookup1_values"
     /\ Finished
     /\ result = "Ok"
     /\ entries >= 1
     /\ dimensions >= 1
     /\ lookup1_values(entries, dimensions).kind = "value") =>
        /\ Power(retval + 1, dimensions) <= entries
        /\ \A n \in Candidates :
             Power(n + 1, dimensions) <= entries => n <= retval

\* C17: for dimensions >= 1, lookup1_values(entries, dimensions) returns the
\* largest n such that n^dimensions <= entries, whenever (n+1)^dimensions is
\* below 2^32 for that n.
C17_LargestN ==
    (entry = "lookup1_values" /\ pc # "call" /\ dimensions >= 1) =>
        \A n \in Candidates :
            (IsRoot(n) /\ ~pow(u32(n + 1), dimensions).overflow) =>
                /\ Finished
                /\ result = "Ok"
                /\ retval = n

C17_Witness ==
    /\ entry = "lookup1_values"
    /\ Finished
    /\ entries = 81
    /\ dimensions = 4
    /\ result = "Ok"
    /\ retval = 3

\* C18: lookup1_values(0, n) is 0 for every n, and for dimensions >= 1 the
\* result r of lookup1_values(entries, dimensions) has
\* r^dimensions <= entries < (r+1)^dimensions: (81,4) gives 3, (271,4) gives
\* 4, (81,2) gives 9, (288,2) gives 16 and (289,2) gives 17.
C18_RootBounds ==
    (entry = "lookup1_values" /\ pc # "call") =>
        /\ entries = 0 => Finished /\ result = "Ok" /\ retval = 0
        /\ (result = "Ok" /\ dimensions >= 1) =>
             /\ Power(retval, dimensions) <= entries
             /\ entries < Power(retval + 1, dimensions)
        /\ (Finished /\ <<entries, dimensions>> = <<81, 4>>) => retval = 3
        /\ (Finished /\ <<entries, dimensions>> = <<271, 4>>) => retval = 4
        /\ (Finished /\ <<entries, dimensions>> = <<81, 2>>) => retval = 9
        /\ (Finished /\ <<entries, dimensions>> = <<288, 2>>) => retval = 16
        /\ (Finished /\ <<entries, dimensions>> = <<289, 2>>) => retval = 17

\* C19 as stated: render_line writes every position of buffer[x0..=x1], both
\* endpoints included, so that buffer[x0] = y0 and buffer[x1] = y1, and
\* leaves the positions outside x0..=x1 unchanged.
C19_Inclusive ==
    (entry = "render_line" /\ Finished /\ result = "Ok") =>
        /\ buffer[x0 + 1] = y0
        /\ x1 + 1 \in DOMAIN buffer
        /\ buffer[x1 + 1] = y1
        /\ \A i \in DOMAIN buffer :
             (i - 1 < x0 \/ i - 1 > x1) => buffer[i] = Fill

\* the line from (x0, y0) to (x1, y1) at x:
\* y0 +- floor(|y1 - y0| * (x - x0) / (x1 - x0)), for x0 <= x < x1
LinePoint(px0, py0, px1, py1, x) ==
    LET adx == px1 - px0
        ady == abs(py1 - py0)
        off == (ady \div adx) * (x - px0) + ((ady % adx) * (x - px0)) \div adx
    IN  IF py1 < py0 THEN py0 - off ELSE py0 + off

\* C19: when render_line returns it has written the positions x0 .. x1 - 1
\* of the buffer, x0 included and x1 excluded, with the line from (x0, y0)
\* to (x1, y1): buffer[x0] = y0, buffer[x1] is
\* not written, and every position outside x0 .. x1 - 1 is unchanged.
C19_HalfOpen ==
    (entry = "render_line" /\ Finished /\ result = "Ok") =>
        /\ buffer[x0 + 1] = y0
        /\ \A i \in DOMAIN buffer :
             buffer[i] = IF x0 <= i - 1 /\ i - 1 < x1
                         THEN LinePoint(x0, y0, x1, y1, i - 1)
                         ELSE Fill

C19_Witness ==
    /\ entry = "render_line"
    /\ Finished
    /\ result = "Ok"
    /\ x0 = 1
    /\ x1 = 4
    /\ y0 # y1
    /\ Len(buffer) = 5
    /\ buffer[2] = y0
    /\ buffer[5] = Fill

\* C20: render_line fails whenever x0 > x1 or an endpoint lies outside
\* 0 ..= buffer.len(), and completes without failure whenever x0 <= x1 and
\* both endpoints are within 0 ..= buffer.len(), x0 = x1 and
\* x0 = buffer.len() included.
C20_Contract ==
    (entry = "render_line" /\ pc # "call") =>
        /\ Finished
        /\ (result = "panic") =
             (\/ x0 > x1
              \/ ~(0 <= x0 /\ x0 <= Len(buffer))
              \/ ~(0 <= x1 /\ x1 <= Len(buffer)))
        /\ (result = "Ok") = (result # "panic")

\* the values before position x0 that a neighbour of buffer[x0] is sought in
Preceding == {buffer[i] : i \in 1 .. x0}

\* C21: low_neighbor(v, x) returns an index n < x with v[n] the greatest of
\* the values of v[0..x] strictly less than v[x], high_neighbor(v, x) one
\* with v[n] the least of those strictly greater than v[x]; each fails when
\* x >= v.len() or when no such element precedes position x.
C21_Neighbors ==
    (entry \in {"low_neighbor", "high_neighbor"} /\ pc # "call") =>
        /\ Finished
        /\ (result = "panic") =
             (\/ x0 >= Len(buffer)
              \/ entry = "low_neighbor"
                   /\ ~\E w \in Preceding : w < buffer[x0 + 1]
              \/ entry = "high_neighbor"
                   /\ ~\E w \in Preceding : w > buffer[x0 + 1])
        /\ result # "panic" =>
             /\ result = "Ok"
             /\ retval >= 0
             /\ retval < x0
             /\ entry = "low_neighbor" =>
                  /\ buffer[retval + 1] < buffer[x0 + 1]
                  /\ \A w \in Preceding :
                       w < buffer[x0 + 1] => w <= buffer[retval + 1]
             /\ entry = "high_neighbor" =>
                  /\ buffer[retval + 1] > buffer[x0 + 1]
                  /\ \A w \in Preceding :
                       w > buffer[x0 + 1] => w >= buffer[retval + 1]

C21_Witness ==
    /\ entry = "low_neighbor"
    /\ Finished
    /\ buffer = NeighborTestList
    /\ x0 = 18
    /\ result = "Ok"
    /\ retval = 9

\* 2^k as a u32, for k in 0..31
PowerOfTwo(k) == IF k < 16 THEN <<0, Pow2(k)>> ELSE <<Pow2(k - 16), 0>>

\* C22: ilog(x) is the number of bits needed to represent x for every 32-bit
\* unsigned x: ilog(0) = 0, and for x >= 1 the result k has
\* 2^(k-1) <= x < 2^k.
C22_BitLength ==
    (entry = "ilog" /\ pc # "call") =>
        /\ Finished
        /\ result = "Ok"
        /\ retval \in 0 .. BITS
        /\ (retval = 0) = (<<x0, y0>> = <<0, 0>>)
        /\ retval >= 1 =>
             /\ le_u32(PowerOfTwo(retval - 1), <<x0, y0>>)
             /\ retval < BITS => lt_u32(<<x0, y0>>, PowerOfTwo(retval))

C22_Witness ==
    /\ entry = "ilog"
    /\ Finished
    /\ <<x0, y0>> = <<32768, 0>>
    /\ retval = BITS

\* the free slots of the tree at depth n: the paths of n steps that pass
\* through no leaf and end at a position without node
FreeSlots(t, n) ==
    {p \in [1 .. n -> {0, 1}] :
        /\ p \notin DOMAIN t
        /\ \A k \in 0 .. n - 1 :
             SubSeq(p, 1, k) \in DOMAIN t => t[SubSeq(p, 1, k)] = None}

\* the first path of a set of paths of one length, left before right
FirstSlot(slots) == CHOOSE p \in slots : \A q \in slots : BitValue(p) <= BitValue(q)

\* one call of add_node with a length of 1 or more
AddNodeStep ==
    (entry = "HuffmanTree::add_node" /\ pc = "insert" /\ current_length' >= 1) =>
        LET slots == FreeSlots(huffman_tree, current_length')
            symbol == Len(codeword_lengths)
        IN  /\ (result' = "panic") = (slots = {})
            /\ result' = "panic" =>
                 /\ err' = "assertion failed: done"
                 /\ huffman_tree' = huffman_tree
            /\ result' # "panic" =>
                 /\ DOMAIN huffman_tree' =
                      DOMAIN huffman_tree
                      \cup {SubSeq(FirstSlot(slots), 1, k) : k \in 0 .. current_length'}
                 /\ \A p \in DOMAIN huffman_tree : huffman_tree'[p] = huffman_tree[p]
                 /\ \A p \in DOMAIN huffman_tree' \ DOMAIN huffman_tree :
                      huffman_tree'[p] = IF p = FirstSlot(slots) THEN symbol ELSE None

\* C23: add_node(length, symbol) with length >= 1 fails if and only if the
\* tree has no free slot at depth length; when it succeeds it takes the first
\* free slot in left-before-right depth-first order, creating the nodes on
\* the way to it, and when it fails the tree is left unchanged.
C23_FirstFreeSlot == [][AddNodeStep]_vars

C23_Witness ==
    /\ entry = "HuffmanTree::add_node"
    /\ result = "panic"
    /\ err = "assertion failed: done"
    /\ codeword_lengths = <<1, 2, 3, 3>>
    /\ current_length = 2

\* the nodes below the node at path p
Children(t, p) == {b \in {0, 1} : HasChild(t, p, b)}

\* C24: after any sequence of successful add_node calls every node that
\* carries a symbol has no children, every node that has a child carries no
\* symbol, every node other than the root that carries no symbol has at least
\* one child, and each inserted symbol is at exactly one leaf, whose depth is
\* the length it was inserted with.
C24_TreeShape ==
    (entry = "HuffmanTree::add_node" /\ result # "panic") =>
        /\ \A p \in DOMAIN huffman_tree :
             /\ huffman_tree[p] # None => Children(huffman_tree, p) = {}
             /\ Children(huffman_tree, p) # {} => huffman_tree[p] = None
             /\ (p # <<>> /\ huffman_tree[p] = None)
                  => Children(huffman_tree, p) # {}
        /\ \A i \in 1 .. Len(codeword_lengths) :
             \E p \in DOMAIN huffman_tree :
                /\ PathsOf(huffman_tree, i - 1) = {p}
                /\ Children(huffman_tree, p) = {}
                /\ Len(p) = codeword_lengths[i]

C24_Witness ==
    /\ entry = "HuffmanTree::add_node"
    /\ result # "panic"
    /\ codeword_lengths = <<3, 1, 3, 2>>
    /\ huffman_tree[<<0, 1>>] = 3

\* entries * dimensions in full, in base 2^16: <<product \div 2^16,
\* product % 2^16>>, for entries below 2^24 and dimensions below 2^16
ExactProduct(e, d) ==
    LET a == (e \div 4096) * d
        b == (e % 4096) * d
        low == (a % 16) * 4096 + b
    IN  <<a \div 16 + low \div 65536, low % 65536>>

\* C25: for lookup_type 2, lookup_values is the exact product
\* entries * dimensions for every 24-bit entries and 16-bit dimensions, not a
\* value reduced modulo 2^32, and for lookup_type 1 it is
\* lookup1_values(entries, dimensions).
C25_ExactProduct ==
    (entry = "lookup_values" /\ pc # "call") =>
        /\ lookup_type = 2 =>
             /\ result = "Ok"
             /\ lookup_values = ExactProduct(entries, dimensions)
        /\ (lookup_type = 1 /\ result = "Ok") =>
             lookup_values = u32(lookup1_values(entries, dimensions).value)

\* the coupling flag was read and was clear: the decode went on to the
\* reserved field without the 8-bit field of the coupling steps
CouplingFlagClear ==
    /\ entry = "Mapping::decode"
    /\ Len(trace) >= CouplingFlagAt
    /\ trace[CouplingFlagAt] = 1
    /\ ~CouplingInUse
    /\ pc # "coupling_steps"
    /\ unexpected_eof # 8

\* C26: when the polar-coupling flag is set, coupling_steps is the stored
\* 8-bit value plus 1 for every stored value 0..255, so 1..256, without
\* arithmetic overflow or wrap-around of the 8-bit result; when the flag is
\* clear coupling_steps is 0 and magnitude and angle are empty.
C26_CouplingSteps ==
    /\ CouplingInUse =>
         /\ result # "panic"
         /\ coupling_steps \in 1 .. U8Max + 1
    /\ CouplingFlagClear =>
         /\ coupling_steps = 0
         /\ magnitude = <<>>
         /\ angle = <<>>

(* --------------------------- Residue::decode --------------------------- *)
\* bit j of the number x is set
BitSet(x, j) == x % Pow2(j + 1) >= Pow2(j)

\* C27: every Residue returned by Residue::decode has residue_type 0, 1 or 2
\* (any other value of the 16-bit field gives InvalidResidueType),
\* classifications in 1..64, cascade and books of classifications elements,
\* cascade[i] = high * 8 + low within 8 bits, 8 entries in every books[i],
\* and books[i][j] is Some exactly when bit j of cascade[i] is set; all
\* cascade entries are read before the first book index.
C27_Residue ==
    entry = "Residue::decode" =>
        /\ result # "panic"
        /\ (residue_type # None /\ residue_type \notin 0 .. 2) =
             (Finished /\ result = "Err" /\ err = "InvalidResidueType"
                /\ errval = <<residue_type>>)
        /\ cascade # <<>> =>
             /\ low_bits \in 0 .. 7
             /\ high_bits \in 0 .. 31
             /\ cascade[Len(cascade)] = high_bits * 8 + low_bits
        /\ books # <<>> => Len(cascade) = classifications
        /\ \A i \in 7 .. Len(trace) - 1 : trace[i] = 8 => trace[i + 1] = 8
        /\ (Finished /\ result = "Ok") =>
             /\ residue_type \in 0 .. 2
             /\ classifications \in 1 .. 64
             /\ Len(cascade) = classifications
             /\ Len(books) = classifications
             /\ \A i \in 1 .. classifications :
                  /\ cascade[i] \in 0 .. U8Max
                  /\ Len(books[i]) = 8
                  /\ \A j \in 0 .. 7 :
                       /\ (books[i][j + 1] # None) = BitSet(cascade[i], j)
                       /\ books[i][j + 1] # None => books[i][j + 1] \in 0 .. U8Max

C27_Witness ==
    /\ entry = "Residue::decode"
    /\ Finished
    /\ result = "Ok"
    /\ classifications = 64
    /\ cascade[1] = 253
    /\ books[1] = <<0, None, 252, 251, 250, 249, 248, 247>>

(* ------------------------- Floor1: the classes ------------------------- *)
\* the classes test_floor_decode expects for its payload
TestFloorClasses ==
    << [dimensions |-> 2, subclasses |-> 0, masterbooks |-> None,
        subclass_books |-> <<3>>],
       [dimensions |-> 3, subclasses |-> 1, masterbooks |-> 0,
        subclass_books |-> <<4, 5>>],
       [dimensions |-> 3, subclasses |-> 2, masterbooks |-> 1,
        subclass_books |-> <<-1, 6, 7, 8>>],
       [dimensions |-> 3, subclasses |-> 2, masterbooks |-> 2,
        subclass_books |-> <<-1, 9, 10, 11>>] >>

\* C28: every Floor1 returned by Floor::decode has maximum_class + 1 classes,
\* maximum_class being the maximum of partition_class_list; each class has
\* dimensions in 1..8, subclasses in 0..3, masterbooks exactly when
\* subclasses > 0, and 2^subclasses subclass_books, each the stored byte
\* minus 1, in -1..254: a stored byte 0 is accepted and gives -1.
C28_Classes ==
    (entry = "Floor::decode" /\ Finished /\ result = "Ok" /\ vorbis_floor_type = 1) =>
        /\ maximum_class \in {partition_class_list[i] : i \in DOMAIN partition_class_list}
        /\ \A i \in DOMAIN partition_class_list : partition_class_list[i] <= maximum_class
        /\ Len(classes) = maximum_class + 1
        /\ \A c \in DOMAIN classes :
             /\ classes[c].dimensions \in 1 .. 8
             /\ classes[c].subclasses \in 0 .. 3
             /\ (classes[c].masterbooks # None) = (classes[c].subclasses > 0)
             /\ Len(classes[c].subclass_books) = Pow2(classes[c].subclasses)
             /\ \A b \in DOMAIN classes[c].subclass_books :
                  classes[c].subclass_books[b] \in -1 .. 254
        /\ input = TestFloorInput => classes = TestFloorClasses

C28_Witness ==
    /\ entry = "Floor::decode"
    /\ Finished
    /\ result = "Ok"
    /\ input = TestFloorInput
    /\ classes[3].subclass_books[1] = -1

(* ------------------- Codebook::decode: loops that end ------------------ *)
OverflowPanics == {"attempt to add with overflow", "attempt to multiply with overflow"}

\* C29: Codebook::decode reaches a Codebook or an error value on every
\* finite input: every iteration of the ordered loop consumes at least one
\* bit and the current length stays within its 8 bits without overflow, and
\* lookup1_values ends without arithmetic overflow, also for dimensions = 0
\* with entries >= 1.
C29_LoopsEnd ==
    entry = "Codebook::decode" =>
        /\ ~(result = "panic" /\ err \in OverflowPanics)
        /\ pc # "lookup1_values"
        /\ pc = "ordered_loop" =>
             /\ current_length \in 1 .. U8Max
             /\ \A i \in 8 .. Len(trace) : trace[i] >= 1

(* --------------------- render_line and render_point -------------------- *)
\* the values test_render_point expects
TestRenderPoint ==
    /\ render_point(0, 0, 1, 0, 0).y = 0
    /\ render_point(0, 83, 128, 72, 12).y = 82
    /\ render_point(12, 86, 128, 72, 46).y = 82

\* C30: for every x0 < x1 within the buffer and every y0, y1, after
\* render_line(x0, y0, x1, y1, buffer) every written position x, x0 <= x < x1,
\* holds render_point(x0, y0, x1, y1, x), for rising and for falling lines.
C30_LineOfPoints ==
    (entry = "render_line" /\ Finished /\ result = "Ok" /\ x0 < x1) =>
        /\ TestRenderPoint
        /\ \A x \in x0 .. x1 - 1 :
             LET point == render_point(x0, y0, x1, y1, x)
             IN  /\ ~(point.overflow /\ overflow_checks)
                 /\ buffer[x + 1] = point.y

====
